---- MODULE Spec2Model ----
(***************************************************************************)
(* A model of the field-mapping and reconciliation layer of                *)
(* covid-data-public: scripts/helpers.py (rename_fields) and               *)
(* scripts/ccd_helpers.py (CovidCountyDataset), with the enumerations of   *)
(* covidactnow/datapublic/common_fields.py they rest on.                   *)
(*                                                                         *)
(* A DataFrame is a sequence of columns; a column is a name and its data.  *)
(* pandas allows two columns of one frame to carry the same name, so the   *)
(* sequence may repeat a name.  Column names and native names are          *)
(* non-empty strings: the truth value of an enum member that mixes in str  *)
(* is the truth value of its string, and every name here is non-empty, so  *)
(* `if field` is `field is not None`.                                      *)
(***************************************************************************)
EXTENDS Integers, Sequences, FiniteSets, TLC

VARIABLES
  pc,                          \* "start" before the call, "done" after it
  df,                          \* rename_fields: the DataFrame argument
  fields,                      \* rename_fields: the Fields enumeration argument
  already_transformed_fields,  \* rename_fields: the set argument
  check_extra_fields,          \* rename_fields: the keyword argument
  atf_order,                   \* the order in which the set above was iterated
  logs,                        \* the events the logger captured, in order
  outcome,                     \* "none", "returned", or the error raised
  result,                      \* the DataFrame returned (<<>> when none was)
  timeseries_df,               \* CovidCountyDataset.timeseries_df, long format
  query,                       \* the arguments of the query made
  selected,                    \* query_variable_for_provider: the rows returned
  wide_df,                     \* query_multiple_variables: the frame returned
  enum_decl,                   \* the class statement of an enumeration
  enum_members,                \* list(cls) of the class it defined
  enum_call                    \* the call made on the class, with its result

vars == <<pc, df, fields, already_transformed_fields, check_extra_fields,
          atf_order, logs, outcome, result, timeseries_df, query, selected,
          wide_df, enum_decl, enum_members, enum_call>>

renameVars == <<df, fields, already_transformed_fields, check_extra_fields,
                atf_order, logs, result>>
queryVars == <<timeseries_df, query, selected, wide_df>>
enumVars == <<enum_decl, enum_members, enum_call>>

\* ------------------------------------------------------------------ bounds
MaxCols == 2
MaxRows == 2
MaxMembers == 2
MaxEntries == 3
MaxDays == 4

\* ------------------------------------------------- common_fields.py, enums
None == "None"

\* The values of the CommonFields members the model draws from.
CommonFieldValues == {"date", "fips"}

\* Column names of source tables.  "date" is also the value of a CommonFields
\* member, as in update_covid_tracking_data.py, whose Fields.DATE is
\* "date", None and whose transform passes {Fields.DATE} as
\* already_transformed_fields.
ColumnNames == {"dt", "date", "foo"}

\* The contents of a column.  The columns of a source table hold different
\* contents, each named here by the position the column has in that table.
ColumnData == 1..MaxCols

\* A Fields enumeration (a class made of GetByValueMixin,
\* FieldNameAndCommonField and enum.Enum): each member's value is its native
\* name and it carries common_field, a CommonFields value or None.
FieldEnums == UNION {[D -> CommonFieldValues \cup {None}] : D \in SUBSET ColumnNames}

\* What get returns when the value is no member's value.
NotFound == [value |-> None, common_field |-> None]

\* GetByValueMixin.get: cls._value2member_map_.get(value, None)
get(cls, value) ==
  IF value \in DOMAIN cls
  THEN [value |-> value, common_field |-> cls[value]]
  ELSE NotFound

\* set(fields): iterating the enumeration gives its members, which hash and
\* compare as their native names.
Members(cls) == DOMAIN cls

\* ------------------------------------------------------------- DataFrames
Column == [name : ColumnNames, data : ColumnData]

RECURSIVE SeqsUpTo(_, _)
SeqsUpTo(S, n) ==
  IF n = 0 THEN {<<>>}
  ELSE LET shorter == SeqsUpTo(S, n - 1)
       IN shorter \cup {Append(s, x) : s \in {t \in shorter : Len(t) = n - 1}, x \in S}

\* The source tables: up to MaxCols columns, of any names.
DataFrames ==
  {[i \in 1..Len(names) |-> [name |-> names[i], data |-> i]] :
     names \in SeqsUpTo(ColumnNames, MaxCols)}

\* df.columns
Columns(frame) == [i \in 1..Len(frame) |-> frame[i].name]

\* set(df.columns)
ColumnSet(frame) == {frame[i].name : i \in 1..Len(frame)}

\* Every order in which a set can be iterated.
RECURSIVE Orders(_)
Orders(S) ==
  IF S = {} THEN {<<>>}
  ELSE UNION {{<<x>> \o s : s \in Orders(S \ {x})} : x \in S}

\* --------------------------------------------------- helpers.rename_fields
MISSING_COLUMNS_MESSAGE == "DataFrame is missing expected column(s)"
EXTRA_COLUMNS_MESSAGE == "DataFrame has extra unexpected column(s)"

\* A variant of line 37 that forgets already_transformed_fields.
ExtraFieldsOfWholeFrame(frame, cls, atf) == ColumnSet(frame) \ Members(cls)

\* helpers.py line 37
ExtraFields(frame, cls, atf) == (ColumnSet(frame) \ Members(cls)) \ atf

\* A variant of line 47 that expects only the members with a common field.
MissingFieldsWithCommonField(frame, cls) ==
  {n \in Members(cls) : cls[n] # None} \ ColumnSet(frame)

\* helpers.py line 47
MissingFields(frame, cls) == Members(cls) \ ColumnSet(frame)

\* A variant of lines 36-51 that looks for extra columns whatever
\* check_extra_fields says.
WarningsAlwaysChecking(frame, cls, atf, check) ==
  LET extra_fields == (ColumnSet(frame) \ Members(cls)) \ atf
      missing_fields == Members(cls) \ ColumnSet(frame)
  IN (IF extra_fields # {}
      THEN <<[event |-> EXTRA_COLUMNS_MESSAGE, names |-> extra_fields]>>
      ELSE <<>>)
     \o
     (IF missing_fields # {}
      THEN <<[event |-> MISSING_COLUMNS_MESSAGE, names |-> missing_fields]>>
      ELSE <<>>)

\* A variant of lines 36-51 that looks for missing columns first.
WarningsMissingFirst(frame, cls, atf, check) ==
  LET extra_fields == (ColumnSet(frame) \ Members(cls)) \ atf
      missing_fields == Members(cls) \ ColumnSet(frame)
  IN (IF missing_fields # {}
      THEN <<[event |-> MISSING_COLUMNS_MESSAGE, names |-> missing_fields]>>
      ELSE <<>>)
     \o
     (IF check /\ extra_fields # {}
      THEN <<[event |-> EXTRA_COLUMNS_MESSAGE, names |-> extra_fields]>>
      ELSE <<>>)

\* A variant of lines 36-51 that puts the missing-columns check inside the
\* `if check_extra_fields:` block.
WarningsMissingInsideCheck(frame, cls, atf, check) ==
  LET extra_fields == (ColumnSet(frame) \ Members(cls)) \ atf
      missing_fields == Members(cls) \ ColumnSet(frame)
  IN (IF check /\ extra_fields # {}
      THEN <<[event |-> EXTRA_COLUMNS_MESSAGE, names |-> extra_fields]>>
      ELSE <<>>)
     \o
     (IF check /\ missing_fields # {}
      THEN <<[event |-> MISSING_COLUMNS_MESSAGE, names |-> missing_fields]>>
      ELSE <<>>)

\* The warnings of lines 36-51, in the order they are logged.  The block of
\* suggested enum lines that lines 42-46 print goes to standard output and
\* to nothing the function returns or logs.
Warnings(frame, cls, atf, check) ==
  LET extra_fields == ExtraFields(frame, cls, atf)
      missing_fields == MissingFields(frame, cls)
  IN (IF check /\ extra_fields # {}
      THEN <<[event |-> EXTRA_COLUMNS_MESSAGE, names |-> extra_fields]>>
      ELSE <<>>)
     \o
     (IF missing_fields # {}
      THEN <<[event |-> MISSING_COLUMNS_MESSAGE, names |-> missing_fields]>>
      ELSE <<>>)

\* The rename dict is a sequence of <<key, target>> pairs in insertion order.
Keys(rename) == {rename[i][1] : i \in 1..Len(rename)}

\* A variant of line 56 that tests the targets of the dict:
\* `field.common_field.value in rename.values()`.
MisconfiguredByTarget(field, rename) ==
  field.common_field \in {rename[i][2] : i \in 1..Len(rename)}

\* Line 56: `field.value in rename` tests the keys of the dict.
Misconfigured(field, rename) == field.value \in Keys(rename)

\* A variant of lines 53-58 that keeps a column whose member has no common
\* field under its own name (`if field:` with the target
\* `field.common_field or field`).
RECURSIVE RenameLoopKeepingUnmapped(_, _, _)
RenameLoopKeepingUnmapped(cols, cls, rename) ==
  IF cols = <<>> THEN [raised |-> FALSE, rename |-> rename]
  ELSE LET field == get(cls, Head(cols))
       IN IF field # NotFound
          THEN IF field.value \in Keys(rename)
               THEN IF field.common_field # None
                    THEN [raised |-> TRUE, rename |-> rename]
                    ELSE RenameLoopKeepingUnmapped(Tail(cols), cls, rename)
               ELSE RenameLoopKeepingUnmapped(
                      Tail(cols), cls,
                      Append(rename,
                             <<field.value,
                               IF field.common_field # None
                               THEN field.common_field ELSE field.value>>))
          ELSE RenameLoopKeepingUnmapped(Tail(cols), cls, rename)

\* Lines 53-58.  raised is TRUE when line 57 raised AssertionError.
RECURSIVE RenameLoop(_, _, _)
RenameLoop(cols, cls, rename) ==
  IF cols = <<>> THEN [raised |-> FALSE, rename |-> rename]
  ELSE LET field == get(cls, Head(cols))
       IN IF field # NotFound /\ field.common_field # None
          THEN IF Misconfigured(field, rename)
               THEN [raised |-> TRUE, rename |-> rename]
               ELSE RenameLoop(Tail(cols), cls,
                               Append(rename, <<field.value, field.common_field>>))
          ELSE RenameLoop(Tail(cols), cls, rename)

\* A variant of the loop that walks the members of the enumeration instead
\* of the columns of the frame.
BuildRenameOfEveryMember(frame, cls, order) ==
  RenameLoop(CHOOSE members \in Orders(Members(cls)) : TRUE, cls,
             [i \in 1..Len(order) |-> <<order[i], order[i]>>])

\* A variant that starts the loop from an empty dict, without line 52.
BuildRenameWithoutIdentity(frame, cls, order) ==
  RenameLoop(Columns(frame), cls, <<>>)

\* Line 52, then the loop.  order is the iteration order of the set.
BuildRename(frame, cls, order) ==
  RenameLoop(Columns(frame), cls, [i \in 1..Len(order) |-> <<order[i], order[i]>>])

\* df.loc[:, [key]] for one label: every column carrying it, in frame order.
RECURSIVE ColumnsNamed(_, _)
ColumnsNamed(frame, key) ==
  IF frame = <<>> THEN <<>>
  ELSE (IF Head(frame).name = key THEN <<Head(frame)>> ELSE <<>>)
       \o ColumnsNamed(Tail(frame), key)

\* list(rename.keys())
KeyList(rename) == [i \in 1..Len(rename) |-> rename[i][1]]

\* df.loc[:, keys], for keys that are all columns of the frame.
RECURSIVE LocColumns(_, _)
LocColumns(frame, keys) ==
  IF keys = <<>> THEN <<>>
  ELSE ColumnsNamed(frame, Head(keys)) \o LocColumns(frame, Tail(keys))

\* The target of a name under the rename dict; a name that is no key keeps
\* its name.
Target(rename, name) ==
  IF name \in Keys(rename)
  THEN (CHOOSE pair \in {rename[i] : i \in 1..Len(rename)} : pair[1] = name)[2]
  ELSE name

\* DataFrame.rename(columns=rename)
RenameColumns(frame, rename) ==
  [i \in 1..Len(frame) |-> [name |-> Target(rename, frame[i].name),
                            data |-> frame[i].data]]

\* A variant of line 60 that selects the columns and forgets to rename them.
SelectWithoutRename(frame, rename) == LocColumns(frame, KeyList(rename))

\* A variant of line 60 that keeps one column for each name of the result,
\* the first one, as a dict of columns would.
SelectFirstOfEachName(frame, rename) ==
  LET renamed == RenameColumns(LocColumns(frame, KeyList(rename)), rename)
  IN SelectSeq([i \in 1..Len(renamed) |->
                  [column |-> renamed[i],
                   first |-> \A j \in 1..(i - 1) : renamed[j].name # renamed[i].name]],
               LAMBDA x : x.first)

\* Line 60: df.loc[:, list(rename.keys())].rename(columns=rename)
SelectAndRename(frame, rename) ==
  RenameColumns(LocColumns(frame, KeyList(rename)), rename)

\* A variant of line 60 that renames the columns of the frame it was given:
\* df.rename(columns=rename, inplace=True).
ArgumentRenamedInPlace(frame, rename) == RenameColumns(frame, rename)

\* The frame of the caller after line 60.  .loc[:, keys] makes a new frame
\* of the selected columns and .rename(columns=rename), without inplace,
\* another; the assignment binds the local name df to it and leaves the
\* object the caller passed alone.
ArgumentAfterSelect(frame, rename) == frame

\* A variant of rename_fields in which line 60 selects the keys that are
\* columns and passes over the others, as a reindex would.
rename_fields_selecting_present_keys(frame, cls, order, check) ==
  LET atf == {order[i] : i \in 1..Len(order)}
      warned == Warnings(frame, cls, atf, check)
      built == BuildRename(frame, cls, order)
  IN IF built.raised
     THEN [logs |-> warned, outcome |-> "AssertionError", result |-> <<>>,
           df |-> frame]
     ELSE [logs |-> warned, outcome |-> "returned",
           result |-> SelectAndRename(frame, built.rename),
           df |-> frame]

\* rename_fields as a whole: the events logged, how the call ended, the
\* frame it returned, and df, the frame of the caller after the call.  Lines
\* 36-58 read the frame and assign to nothing of it.
rename_fields(frame, cls, order, check) ==
  LET atf == {order[i] : i \in 1..Len(order)}
      warned == Warnings(frame, cls, atf, check)
      built == BuildRename(frame, cls, order)
  IN IF built.raised
     THEN [logs |-> warned, outcome |-> "AssertionError", result |-> <<>>,
           df |-> frame]
     ELSE IF ~(Keys(built.rename) \subseteq ColumnSet(frame))
     THEN [logs |-> warned, outcome |-> "KeyError", result |-> <<>>,
           df |-> frame]
     ELSE [logs |-> warned, outcome |-> "returned",
           result |-> SelectAndRename(frame, built.rename),
           df |-> ArgumentAfterSelect(frame, built.rename)]

\* ------------------------------------------- ccd_helpers.CovidCountyDataset
\* A row of timeseries_df, under the column names of ccd_helpers.Fields.
\* The set is a section of the product of the dimensions: the rows of the
\* variable queried, in two units, and one row off in each other dimension.
BaseKey == [provider |-> "cdc", variable_name |-> "tests",
            measurement |-> "cumulative", unit |-> "people",
            age |-> "all", race |-> "all", sex |-> "all"]

RowKeys ==
  {BaseKey,
   [BaseKey EXCEPT !.unit = "specimens"],
   [BaseKey EXCEPT !.provider = "hhs"],
   [BaseKey EXCEPT !.variable_name = "cases"],
   [BaseKey EXCEPT !.measurement = "new"],
   [BaseKey EXCEPT !.age = "0-17"],
   [BaseKey EXCEPT !.race = "white"],
   [BaseKey EXCEPT !.sex = "female"]}

\* (location, dt, location_type) of a row: two dates of one state, and the
\* first date under another location_type.
RowPlaces ==
  {[location |-> "06", dt |-> "2020-10-07", location_type |-> "state"],
   [location |-> "06", dt |-> "2020-10-10", location_type |-> "state"],
   [location |-> "06", dt |-> "2020-10-07", location_type |-> "county"]}

RowValues == {1, 3}

MakeRow(key, place, value) ==
  [provider |-> key.provider, variable_name |-> key.variable_name,
   measurement |-> key.measurement, unit |-> key.unit, age |-> key.age,
   race |-> key.race, sex |-> key.sex, location |-> place.location,
   dt |-> place.dt, location_type |-> place.location_type, value |-> value]

\* lines 64-73 and 88-97: the boolean mask of one row.  A unit of None is
\* falsy and leaves the unit column out of the mask.
IsSelectedData(row, provider, variable_name, measurement, age, race, sex, unit) ==
  /\ row.provider = provider
  /\ row.variable_name = variable_name
  /\ row.measurement = measurement
  /\ row.age = age
  /\ row.race = race
  /\ row.sex = sex
  /\ (unit # None => row.unit = unit)

\* all_df.loc[mask]: the rows of the mask, in the order of the frame.
RECURSIVE Loc(_, _)
Loc(frame, mask) ==
  IF frame = <<>> THEN <<>>
  ELSE (IF mask[1] THEN <<Head(frame)>> ELSE <<>>)
       \o Loc(Tail(frame), Tail(mask))

\* A variant of lines 59-75 without lines 72-73: the unit is never looked at.
query_variable_for_provider_any_unit(all_df, variable_name, measurement, provider, unit) ==
  Loc(all_df,
      [i \in 1..Len(all_df) |->
         IsSelectedData(all_df[i], provider, variable_name, measurement,
                        "all", "all", "all", None)])

\* lines 59-75
query_variable_for_provider(all_df, variable_name, measurement, provider, unit) ==
  Loc(all_df,
      [i \in 1..Len(all_df) |->
         IsSelectedData(all_df[i], provider, variable_name, measurement,
                        "all", "all", "all", unit)])

\* A variant of lines 86-105 without lines 102-103: no row is relabelled.
SelectVariableUnlabelled(all_df, variable) ==
  Loc(all_df,
      [i \in 1..Len(all_df) |->
         IsSelectedData(all_df[i], variable.provider, variable.variable_name,
                        variable.measurement, variable.age, variable.race,
                        variable.sex, variable.unit)])

\* lines 86-105, for one ScraperVariable: the selection, relabelled when the
\* variable carries a common field.
SelectVariable(all_df, variable) ==
  LET data == Loc(all_df,
                  [i \in 1..Len(all_df) |->
                     IsSelectedData(all_df[i], variable.provider,
                                    variable.variable_name, variable.measurement,
                                    variable.age, variable.race, variable.sex,
                                    variable.unit)])
  IN IF variable.common_field # None
     THEN [i \in 1..Len(data) |->
             [data[i] EXCEPT !.variable_name = variable.common_field]]
     ELSE data

\* line 107: pd.concat(selected_data)
RECURSIVE Concat(_, _)
Concat(all_df, variables) ==
  IF variables = <<>> THEN <<>>
  ELSE SelectVariable(all_df, Head(variables)) \o Concat(all_df, Tail(variables))

RECURSIVE SumValues(_)
SumValues(rows) ==
  IF rows = <<>> THEN 0 ELSE Head(rows).value + SumValues(Tail(rows))

\* The pivot_table aggregate of a group of rows: aggfunc is left at its
\* default, the mean, kept here as the exact fraction num / den.  A cell no
\* row falls into is missing.
Missing == [num |-> 0, den |-> 0]
Mean(rows) == IF rows = <<>> THEN Missing
              ELSE [num |-> SumValues(rows), den |-> Len(rows)]

\* The rows of the frame in one cell of the pivot.
CellRows(frame, place, label) ==
  Loc(frame, [i \in 1..Len(frame) |->
                /\ frame[i].location = place.location
                /\ frame[i].dt = place.dt
                /\ frame[i].location_type = place.location_type
                /\ frame[i].variable_name = label])

Aggregate(frame, place, label) == Mean(CellRows(frame, place, label))

\* lines 109-122: pivot_table(index=[location, dt, location_type],
\* columns=variable_name, values=value).reset_index(), then the rename of
\* the index columns to fips, date and aggregate_level.  One row for every
\* index triple of the frame, one value column for every label.
PivotTable(frame) ==
  LET places == {[location |-> frame[i].location, dt |-> frame[i].dt,
                  location_type |-> frame[i].location_type] : i \in 1..Len(frame)}
      labels == {frame[i].variable_name : i \in 1..Len(frame)}
  IN {[fips |-> place.location, date |-> place.dt,
       aggregate_level |-> place.location_type,
       cells |-> [label \in labels |-> Aggregate(frame, place, label)]] :
        place \in places}

\* A variant of lines 99-103 in which data is a view of all_df, so that the
\* assignment of line 103 writes the label into the rows of the dataset.
RECURSIVE DatasetRelabelledInPlace(_, _)
DatasetRelabelledInPlace(all_df, variables) ==
  IF variables = <<>> THEN all_df
  ELSE LET variable == Head(variables)
           relabelled ==
             [i \in 1..Len(all_df) |->
                IF /\ variable.common_field # None
                   /\ IsSelectedData(all_df[i], variable.provider,
                                     variable.variable_name, variable.measurement,
                                     variable.age, variable.race, variable.sex,
                                     variable.unit)
                THEN [all_df[i] EXCEPT !.variable_name = variable.common_field]
                ELSE all_df[i]]
       IN DatasetRelabelledInPlace(relabelled, Tail(variables))

\* self.timeseries_df after the loop of lines 86-105.  all_df.loc[mask] with
\* a boolean mask makes a new frame of the selected rows, and the assignment
\* of line 103 writes into that frame; nothing is assigned to the dataset.
DatasetAfterSelect(all_df, variables) == all_df

\* lines 77-123.  pd.concat of an empty list raises ValueError.  What the
\* pivot of a frame without rows does (an empty frame, or an error of the
\* unstack) differs between pandas releases: on_empty is the one of the two
\* that this build takes.  timeseries_df is the table of the dataset after
\* the call.
query_multiple_variables(all_df, variables, on_empty) ==
  IF variables = <<>>
  THEN [outcome |-> "ValueError", wide_df |-> {},
        timeseries_df |-> DatasetAfterSelect(all_df, variables)]
  ELSE IF Concat(all_df, variables) = <<>>
  THEN [outcome |-> on_empty, wide_df |-> {},
        timeseries_df |-> DatasetAfterSelect(all_df, variables)]
  ELSE [outcome |-> "returned", wide_df |-> PivotTable(Concat(all_df, variables)),
        timeseries_df |-> DatasetAfterSelect(all_df, variables)]

\* The frames of the filter: every row with contents of its own, named here
\* by the position of the row.
QueryFrames ==
  {[i \in 1..Len(keys) |->
      MakeRow(keys[i], CHOOSE place \in RowPlaces : place.dt = "2020-10-07"
                                      /\ place.location_type = "state", i)] :
     keys \in SeqsUpTo(RowKeys, MaxRows)}

\* The frames of the pivot: rows of the queried variable in its two units,
\* at any place and with any value.
PivotFrames ==
  SeqsUpTo({MakeRow(key, place, value) :
              key \in {k \in RowKeys : k = [BaseKey EXCEPT !.unit = k.unit]},
              place \in RowPlaces, value \in RowValues},
           MaxRows)

\* The ScraperVariable instances queried: unit is a required field and may
\* be None; age, race and sex are left at their default.
ScraperVariables ==
  [variable_name : {"tests"}, measurement : {"cumulative"}, provider : {"cdc"},
   unit : {None, "people", "specimens"}, age : {"all"}, race : {"all"},
   sex : {"all"}, common_field : {None, "positive_tests", "total_tests"}]

VariableLists ==
  {<<>>} \cup {<<v>> : v \in ScraperVariables}
         \cup {<<v, w>> : v \in ScraperVariables, w \in ScraperVariables}

\* A keyword argument that the call does not pass.
Absent == "absent"

\* The keyword arguments of a call ScraperVariable(...): every field is
\* passed or not, and unit may be passed as None.
ScraperVariableArguments ==
  [variable_name : {"tests"}, measurement : {Absent, "cumulative"},
   provider : {"cdc"}, unit : {Absent, None, "people", "specimens"},
   age : {Absent, "all", "0-17"}, race : {Absent, "white"},
   sex : {Absent, "female"}, common_field : {Absent, "total_tests"}]

\* The value of a field with a default.
Default(kwargs, field, default) ==
  IF kwargs[field] = Absent THEN default ELSE kwargs[field]

\* A variant of the dataclass in which line 47 reads `unit: str = None`.
ScraperVariableUnitOptional(kwargs) ==
  IF \E field \in {"variable_name", "measurement", "provider"} :
       kwargs[field] = Absent
  THEN [outcome |-> "TypeError"]
  ELSE [outcome |-> "made",
        variable |->
          [variable_name |-> kwargs.variable_name,
           measurement |-> kwargs.measurement,
           provider |-> kwargs.provider,
           unit |-> IF kwargs.unit = Absent THEN None ELSE kwargs.unit,
           age |-> IF kwargs.age = Absent THEN "all" ELSE kwargs.age,
           race |-> IF kwargs.race = Absent THEN "all" ELSE kwargs.race,
           sex |-> IF kwargs.sex = Absent THEN "all" ELSE kwargs.sex,
           common_field |-> IF kwargs.common_field = Absent THEN None
                            ELSE kwargs.common_field]]

\* lines 40-51: the __init__ the dataclass decorator makes.  variable_name,
\* measurement, provider and unit have no default, and a call that leaves
\* one of them out raises TypeError.
ScraperVariable(kwargs) ==
  IF \E field \in {"variable_name", "measurement", "provider", "unit"} :
       kwargs[field] = Absent
  THEN [outcome |-> "TypeError"]
  ELSE [outcome |-> "made",
        variable |->
          [variable_name |-> kwargs.variable_name,
           measurement |-> kwargs.measurement,
           provider |-> kwargs.provider,
           unit |-> kwargs.unit,
           age |-> Default(kwargs, "age", "all"),
           race |-> Default(kwargs, "race", "all"),
           sex |-> Default(kwargs, "sex", "all"),
           common_field |-> Default(kwargs, "common_field", None)]]

\* ------------------------------------------------- enum class definitions
\* A class statement `@decorators class class_name(bases): body` of an
\* enumeration.  The body is the sequence of its assignments, in the order
\* they are written: NAME = value in CommonFields and PdFields, and
\* NAME = value, CommonFields.X or NAME = value, None in the source mappings,
\* whose common_field is the name X of the CommonFields member referred to.
\* The small source mappings have up to MaxMembers entries.
\* A variant of the first entries in which the value of one was typed with
\* a capital letter.
CommonFieldsRegionEntriesMistyped ==
  <<[name |-> "FIPS", value |-> "fips"],
    [name |-> "DATE", value |-> "date"],
    [name |-> "LOCATION_ID", value |-> "location_id"],
    [name |-> "STATE", value |-> "State"],
    [name |-> "COUNTRY", value |-> "country"],
    [name |-> "COUNTY", value |-> "county"],
    [name |-> "AGGREGATE_LEVEL", value |-> "aggregate_level"],
    [name |-> "STATE_FULL_NAME", value |-> "state_full_name"]>>

\* common_fields.py lines 35-53: the assignments NAME = value of the body of
\* CommonFields that identify a row.
CommonFieldsRegionEntries ==
  <<[name |-> "FIPS", value |-> "fips"],
    [name |-> "DATE", value |-> "date"],
    [name |-> "LOCATION_ID", value |-> "location_id"],
    [name |-> "STATE", value |-> "state"],
    [name |-> "COUNTRY", value |-> "country"],
    [name |-> "COUNTY", value |-> "county"],
    [name |-> "AGGREGATE_LEVEL", value |-> "aggregate_level"],
    [name |-> "STATE_FULL_NAME", value |-> "state_full_name"]>>

\* common_fields.py lines 55-108: the other assignments of the body.
CommonFieldsMetricEntries ==
  <<[name |-> "CASES", value |-> "cases"],
    [name |-> "DEATHS", value |-> "deaths"],
    [name |-> "RECOVERED", value |-> "recovered"],
    [name |-> "NEW_CASES", value |-> "new_cases"],
    [name |-> "NEW_DEATHS", value |-> "new_deaths"],
    [name |-> "WEEKLY_NEW_CASES", value |-> "weekly_new_cases"],
    [name |-> "WEEKLY_NEW_DEATHS", value |-> "weekly_new_deaths"],
    [name |-> "MODEL_ABBR", value |-> "model_abbr"],
    [name |-> "FORECAST_DATE", value |-> "forecast_date"],
    [name |-> "QUANTILE", value |-> "quantile"],
    [name |-> "CUMULATIVE_HOSPITALIZED", value |-> "cumulative_hospitalized"],
    [name |-> "CUMULATIVE_ICU", value |-> "cumulative_icu"],
    [name |-> "POSITIVE_TESTS", value |-> "positive_tests"],
    [name |-> "NEGATIVE_TESTS", value |-> "negative_tests"],
    [name |-> "TOTAL_TESTS", value |-> "total_tests"],
    [name |-> "POSITIVE_TESTS_VIRAL", value |-> "positive_tests_viral"],
    [name |-> "POSITIVE_CASES_VIRAL", value |-> "positive_cases_viral"],
    [name |-> "TOTAL_TESTS_VIRAL", value |-> "total_tests_viral"],
    [name |-> "TOTAL_TESTS_PEOPLE_VIRAL", value |-> "total_tests_people_viral"],
    [name |-> "TOTAL_TEST_ENCOUNTERS_VIRAL", value |-> "total_test_encounters_viral"],
    [name |-> "CURRENT_ICU", value |-> "current_icu"],
    [name |-> "CURRENT_HOSPITALIZED", value |-> "current_hospitalized"],
    [name |-> "CURRENT_VENTILATED", value |-> "current_ventilated"],
    [name |-> "POPULATION", value |-> "population"],
    [name |-> "STAFFED_BEDS", value |-> "staffed_beds"],
    [name |-> "LICENSED_BEDS", value |-> "licensed_beds"],
    [name |-> "ICU_BEDS", value |-> "icu_beds"],
    [name |-> "ALL_BED_TYPICAL_OCCUPANCY_RATE", value |-> "all_beds_occupancy_rate"],
    [name |-> "ICU_TYPICAL_OCCUPANCY_RATE", value |-> "icu_occupancy_rate"],
    [name |-> "MAX_BED_COUNT", value |-> "max_bed_count"],
    [name |-> "VENTILATOR_CAPACITY", value |-> "ventilator_capacity"],
    [name |-> "HOSPITAL_BEDS_IN_USE_ANY", value |-> "hospital_beds_in_use_any"],
    [name |-> "CURRENT_HOSPITALIZED_TOTAL", value |-> "current_hospitalized_total"],
    [name |-> "CURRENT_ICU_TOTAL", value |-> "current_icu_total"],
    [name |-> "CONTACT_TRACERS_COUNT", value |-> "contact_tracers_count"],
    [name |-> "LATITUDE", value |-> "latitude"],
    [name |-> "LONGITUDE", value |-> "longitude"],
    [name |-> "TEST_POSITIVITY", value |-> "test_positivity"]>>

\* common_fields.py lines 117-125
PdFieldsEntries ==
  <<[name |-> "VARIABLE", value |-> "variable"],
    [name |-> "VALUE", value |-> "value"],
    [name |-> "PROVENANCE", value |-> "provenance"],
    [name |-> "DATASET", value |-> "dataset"]>>

\* The characters of the names and values of CommonFields, one by one.
Spelling ==
  "AGGREGATE_LEVEL" :> <<"A", "G", "G", "R", "E", "G", "A", "T", "E", "_", "L", "E", "V", "E", "L">>
  @@ "ALL_BED_TYPICAL_OCCUPANCY_RATE" :> <<"A", "L", "L", "_", "B", "E", "D", "_", "T", "Y", "P", "I", "C", "A", "L", "_", "O", "C", "C", "U", "P", "A", "N", "C", "Y", "_", "R", "A", "T", "E">>
  @@ "CASES" :> <<"C", "A", "S", "E", "S">>
  @@ "CONTACT_TRACERS_COUNT" :> <<"C", "O", "N", "T", "A", "C", "T", "_", "T", "R", "A", "C", "E", "R", "S", "_", "C", "O", "U", "N", "T">>
  @@ "COUNTRY" :> <<"C", "O", "U", "N", "T", "R", "Y">>
  @@ "COUNTY" :> <<"C", "O", "U", "N", "T", "Y">>
  @@ "CUMULATIVE_HOSPITALIZED" :> <<"C", "U", "M", "U", "L", "A", "T", "I", "V", "E", "_", "H", "O", "S", "P", "I", "T", "A", "L", "I", "Z", "E", "D">>
  @@ "CUMULATIVE_ICU" :> <<"C", "U", "M", "U", "L", "A", "T", "I", "V", "E", "_", "I", "C", "U">>
  @@ "CURRENT_HOSPITALIZED" :> <<"C", "U", "R", "R", "E", "N", "T", "_", "H", "O", "S", "P", "I", "T", "A", "L", "I", "Z", "E", "D">>
  @@ "CURRENT_HOSPITALIZED_TOTAL" :> <<"C", "U", "R", "R", "E", "N", "T", "_", "H", "O", "S", "P", "I", "T", "A", "L", "I", "Z", "E", "D", "_", "T", "O", "T", "A", "L">>
  @@ "CURRENT_ICU" :> <<"C", "U", "R", "R", "E", "N", "T", "_", "I", "C", "U">>
  @@ "CURRENT_ICU_TOTAL" :> <<"C", "U", "R", "R", "E", "N", "T", "_", "I", "C", "U", "_", "T", "O", "T", "A", "L">>
  @@ "CURRENT_VENTILATED" :> <<"C", "U", "R", "R", "E", "N", "T", "_", "V", "E", "N", "T", "I", "L", "A", "T", "E", "D">>
  @@ "DATE" :> <<"D", "A", "T", "E">>
  @@ "DEATHS" :> <<"D", "E", "A", "T", "H", "S">>
  @@ "FIPS" :> <<"F", "I", "P", "S">>
  @@ "FORECAST_DATE" :> <<"F", "O", "R", "E", "C", "A", "S", "T", "_", "D", "A", "T", "E">>
  @@ "HOSPITAL_BEDS_IN_USE_ANY" :> <<"H", "O", "S", "P", "I", "T", "A", "L", "_", "B", "E", "D", "S", "_", "I", "N", "_", "U", "S", "E", "_", "A", "N", "Y">>
  @@ "ICU_BEDS" :> <<"I", "C", "U", "_", "B", "E", "D", "S">>
  @@ "ICU_TYPICAL_OCCUPANCY_RATE" :> <<"I", "C", "U", "_", "T", "Y", "P", "I", "C", "A", "L", "_", "O", "C", "C", "U", "P", "A", "N", "C", "Y", "_", "R", "A", "T", "E">>
  @@ "LATITUDE" :> <<"L", "A", "T", "I", "T", "U", "D", "E">>
  @@ "LICENSED_BEDS" :> <<"L", "I", "C", "E", "N", "S", "E", "D", "_", "B", "E", "D", "S">>
  @@ "LOCATION_ID" :> <<"L", "O", "C", "A", "T", "I", "O", "N", "_", "I", "D">>
  @@ "LONGITUDE" :> <<"L", "O", "N", "G", "I", "T", "U", "D", "E">>
  @@ "MAX_BED_COUNT" :> <<"M", "A", "X", "_", "B", "E", "D", "_", "C", "O", "U", "N", "T">>
  @@ "MODEL_ABBR" :> <<"M", "O", "D", "E", "L", "_", "A", "B", "B", "R">>
  @@ "NEGATIVE_TESTS" :> <<"N", "E", "G", "A", "T", "I", "V", "E", "_", "T", "E", "S", "T", "S">>
  @@ "NEW_CASES" :> <<"N", "E", "W", "_", "C", "A", "S", "E", "S">>
  @@ "NEW_DEATHS" :> <<"N", "E", "W", "_", "D", "E", "A", "T", "H", "S">>
  @@ "POPULATION" :> <<"P", "O", "P", "U", "L", "A", "T", "I", "O", "N">>
  @@ "POSITIVE_CASES_VIRAL" :> <<"P", "O", "S", "I", "T", "I", "V", "E", "_", "C", "A", "S", "E", "S", "_", "V", "I", "R", "A", "L">>
  @@ "POSITIVE_TESTS" :> <<"P", "O", "S", "I", "T", "I", "V", "E", "_", "T", "E", "S", "T", "S">>
  @@ "POSITIVE_TESTS_VIRAL" :> <<"P", "O", "S", "I", "T", "I", "V", "E", "_", "T", "E", "S", "T", "S", "_", "V", "I", "R", "A", "L">>
  @@ "QUANTILE" :> <<"Q", "U", "A", "N", "T", "I", "L", "E">>
  @@ "RECOVERED" :> <<"R", "E", "C", "O", "V", "E", "R", "E", "D">>
  @@ "STAFFED_BEDS" :> <<"S", "T", "A", "F", "F", "E", "D", "_", "B", "E", "D", "S">>
  @@ "STATE" :> <<"S", "T", "A", "T", "E">>
  @@ "STATE_FULL_NAME" :> <<"S", "T", "A", "T", "E", "_", "F", "U", "L", "L", "_", "N", "A", "M", "E">>
  @@ "State" :> <<"S", "t", "a", "t", "e">>
  @@ "TEST_POSITIVITY" :> <<"T", "E", "S", "T", "_", "P", "O", "S", "I", "T", "I", "V", "I", "T", "Y">>
  @@ "TOTAL_TESTS" :> <<"T", "O", "T", "A", "L", "_", "T", "E", "S", "T", "S">>
  @@ "TOTAL_TESTS_PEOPLE_VIRAL" :> <<"T", "O", "T", "A", "L", "_", "T", "E", "S", "T", "S", "_", "P", "E", "O", "P", "L", "E", "_", "V", "I", "R", "A", "L">>
  @@ "TOTAL_TESTS_VIRAL" :> <<"T", "O", "T", "A", "L", "_", "T", "E", "S", "T", "S", "_", "V", "I", "R", "A", "L">>
  @@ "TOTAL_TEST_ENCOUNTERS_VIRAL" :> <<"T", "O", "T", "A", "L", "_", "T", "E", "S", "T", "_", "E", "N", "C", "O", "U", "N", "T", "E", "R", "S", "_", "V", "I", "R", "A", "L">>
  @@ "VENTILATOR_CAPACITY" :> <<"V", "E", "N", "T", "I", "L", "A", "T", "O", "R", "_", "C", "A", "P", "A", "C", "I", "T", "Y">>
  @@ "WEEKLY_NEW_CASES" :> <<"W", "E", "E", "K", "L", "Y", "_", "N", "E", "W", "_", "C", "A", "S", "E", "S">>
  @@ "WEEKLY_NEW_DEATHS" :> <<"W", "E", "E", "K", "L", "Y", "_", "N", "E", "W", "_", "D", "E", "A", "T", "H", "S">>
  @@ "aggregate_level" :> <<"a", "g", "g", "r", "e", "g", "a", "t", "e", "_", "l", "e", "v", "e", "l">>
  @@ "all_beds_occupancy_rate" :> <<"a", "l", "l", "_", "b", "e", "d", "s", "_", "o", "c", "c", "u", "p", "a", "n", "c", "y", "_", "r", "a", "t", "e">>
  @@ "cases" :> <<"c", "a", "s", "e", "s">>
  @@ "contact_tracers_count" :> <<"c", "o", "n", "t", "a", "c", "t", "_", "t", "r", "a", "c", "e", "r", "s", "_", "c", "o", "u", "n", "t">>
  @@ "country" :> <<"c", "o", "u", "n", "t", "r", "y">>
  @@ "county" :> <<"c", "o", "u", "n", "t", "y">>
  @@ "cumulative_hospitalized" :> <<"c", "u", "m", "u", "l", "a", "t", "i", "v", "e", "_", "h", "o", "s", "p", "i", "t", "a", "l", "i", "z", "e", "d">>
  @@ "cumulative_icu" :> <<"c", "u", "m", "u", "l", "a", "t", "i", "v", "e", "_", "i", "c", "u">>
  @@ "current_hospitalized" :> <<"c", "u", "r", "r", "e", "n", "t", "_", "h", "o", "s", "p", "i", "t", "a", "l", "i", "z", "e", "d">>
  @@ "current_hospitalized_total" :> <<"c", "u", "r", "r", "e", "n", "t", "_", "h", "o", "s", "p", "i", "t", "a", "l", "i", "z", "e", "d", "_", "t", "o", "t", "a", "l">>
  @@ "current_icu" :> <<"c", "u", "r", "r", "e", "n", "t", "_", "i", "c", "u">>
  @@ "current_icu_total" :> <<"c", "u", "r", "r", "e", "n", "t", "_", "i", "c", "u", "_", "t", "o", "t", "a", "l">>
  @@ "current_ventilated" :> <<"c", "u", "r", "r", "e", "n", "t", "_", "v", "e", "n", "t", "i", "l", "a", "t", "e", "d">>
  @@ "date" :> <<"d", "a", "t", "e">>
  @@ "deaths" :> <<"d", "e", "a", "t", "h", "s">>
  @@ "fips" :> <<"f", "i", "p", "s">>
  @@ "forecast_date" :> <<"f", "o", "r", "e", "c", "a", "s", "t", "_", "d", "a", "t", "e">>
  @@ "hospital_beds_in_use_any" :> <<"h", "o", "s", "p", "i", "t", "a", "l", "_", "b", "e", "d", "s", "_", "i", "n", "_", "u", "s", "e", "_", "a", "n", "y">>
  @@ "icu_beds" :> <<"i", "c", "u", "_", "b", "e", "d", "s">>
  @@ "icu_occupancy_rate" :> <<"i", "c", "u", "_", "o", "c", "c", "u", "p", "a", "n", "c", "y", "_", "r", "a", "t", "e">>
  @@ "latitude" :> <<"l", "a", "t", "i", "t", "u", "d", "e">>
  @@ "licensed_beds" :> <<"l", "i", "c", "e", "n", "s", "e", "d", "_", "b", "e", "d", "s">>
  @@ "location_id" :> <<"l", "o", "c", "a", "t", "i", "o", "n", "_", "i", "d">>
  @@ "longitude" :> <<"l", "o", "n", "g", "i", "t", "u", "d", "e">>
  @@ "max_bed_count" :> <<"m", "a", "x", "_", "b", "e", "d", "_", "c", "o", "u", "n", "t">>
  @@ "model_abbr" :> <<"m", "o", "d", "e", "l", "_", "a", "b", "b", "r">>
  @@ "negative_tests" :> <<"n", "e", "g", "a", "t", "i", "v", "e", "_", "t", "e", "s", "t", "s">>
  @@ "new_cases" :> <<"n", "e", "w", "_", "c", "a", "s", "e", "s">>
  @@ "new_deaths" :> <<"n", "e", "w", "_", "d", "e", "a", "t", "h", "s">>
  @@ "population" :> <<"p", "o", "p", "u", "l", "a", "t", "i", "o", "n">>
  @@ "positive_cases_viral" :> <<"p", "o", "s", "i", "t", "i", "v", "e", "_", "c", "a", "s", "e", "s", "_", "v", "i", "r", "a", "l">>
  @@ "positive_tests" :> <<"p", "o", "s", "i", "t", "i", "v", "e", "_", "t", "e", "s", "t", "s">>
  @@ "positive_tests_viral" :> <<"p", "o", "s", "i", "t", "i", "v", "e", "_", "t", "e", "s", "t", "s", "_", "v", "i", "r", "a", "l">>
  @@ "quantile" :> <<"q", "u", "a", "n", "t", "i", "l", "e">>
  @@ "recovered" :> <<"r", "e", "c", "o", "v", "e", "r", "e", "d">>
  @@ "staffed_beds" :> <<"s", "t", "a", "f", "f", "e", "d", "_", "b", "e", "d", "s">>
  @@ "state" :> <<"s", "t", "a", "t", "e">>
  @@ "state_full_name" :> <<"s", "t", "a", "t", "e", "_", "f", "u", "l", "l", "_", "n", "a", "m", "e">>
  @@ "test_positivity" :> <<"t", "e", "s", "t", "_", "p", "o", "s", "i", "t", "i", "v", "i", "t", "y">>
  @@ "total_test_encounters_viral" :> <<"t", "o", "t", "a", "l", "_", "t", "e", "s", "t", "_", "e", "n", "c", "o", "u", "n", "t", "e", "r", "s", "_", "v", "i", "r", "a", "l">>
  @@ "total_tests" :> <<"t", "o", "t", "a", "l", "_", "t", "e", "s", "t", "s">>
  @@ "total_tests_people_viral" :> <<"t", "o", "t", "a", "l", "_", "t", "e", "s", "t", "s", "_", "p", "e", "o", "p", "l", "e", "_", "v", "i", "r", "a", "l">>
  @@ "total_tests_viral" :> <<"t", "o", "t", "a", "l", "_", "t", "e", "s", "t", "s", "_", "v", "i", "r", "a", "l">>
  @@ "ventilator_capacity" :> <<"v", "e", "n", "t", "i", "l", "a", "t", "o", "r", "_", "c", "a", "p", "a", "c", "i", "t", "y">>
  @@ "weekly_new_cases" :> <<"w", "e", "e", "k", "l", "y", "_", "n", "e", "w", "_", "c", "a", "s", "e", "s">>
  @@ "weekly_new_deaths" :> <<"w", "e", "e", "k", "l", "y", "_", "n", "e", "w", "_", "d", "e", "a", "t", "h", "s">>

\* common_fields.py lines 31-108
CommonFields ==
  [class_name |-> "CommonFields",
   decorators |-> {"unique"},
   bases |-> <<"GetByValueMixin", "ValueAsStrMixin", "FieldName", "Enum">>,
   body |-> CommonFieldsRegionEntries \o CommonFieldsMetricEntries]

\* common_fields.py lines 111-125
PdFields ==
  [class_name |-> "PdFields",
   decorators |-> {"unique"},
   bases |-> <<"GetByValueMixin", "ValueAsStrMixin", "FieldName", "Enum">>,
   body |-> PdFieldsEntries]

\* ccd_helpers.py lines 22-37
ccd_helpers_Fields ==
  [class_name |-> "Fields",
   decorators |-> {"unique"},
   bases |-> <<"GetByValueMixin", "FieldNameAndCommonField", "Enum">>,
   body |-> <<
     [name |-> "PROVIDER", value |-> "provider",
      common_field |-> None],
     [name |-> "DATE", value |-> "dt",
      common_field |-> "DATE"],
     [name |-> "LOCATION_TYPE", value |-> "location_type",
      common_field |-> "AGGREGATE_LEVEL"],
     [name |-> "LOCATION", value |-> "location",
      common_field |-> "FIPS"],
     [name |-> "VARIABLE_NAME", value |-> "variable_name",
      common_field |-> None],
     [name |-> "MEASUREMENT", value |-> "measurement",
      common_field |-> None],
     [name |-> "UNIT", value |-> "unit",
      common_field |-> None],
     [name |-> "AGE", value |-> "age",
      common_field |-> None],
     [name |-> "RACE", value |-> "race",
      common_field |-> None],
     [name |-> "SEX", value |-> "sex",
      common_field |-> None],
     [name |-> "VALUE", value |-> "value",
      common_field |-> None]>>]

\* update_cdc_test_data.py lines 22-34
update_cdc_test_data_Fields ==
  [class_name |-> "Fields",
   decorators |-> {"unique"},
   bases |-> <<"GetByValueMixin", "FieldNameAndCommonField", "Enum">>,
   body |-> <<
     [name |-> "PROVIDER", value |-> "provider",
      common_field |-> None],
     [name |-> "DATE", value |-> "dt",
      common_field |-> "DATE"],
     [name |-> "LOCATION", value |-> "location",
      common_field |-> None],
     [name |-> "CATEGORY", value |-> "category",
      common_field |-> None],
     [name |-> "MEASUREMENT", value |-> "measurement",
      common_field |-> None],
     [name |-> "UNIT", value |-> "unit",
      common_field |-> None],
     [name |-> "AGE", value |-> "age",
      common_field |-> None],
     [name |-> "RACE", value |-> "race",
      common_field |-> None],
     [name |-> "SEX", value |-> "sex",
      common_field |-> None],
     [name |-> "VALUE", value |-> "value",
      common_field |-> None]>>]

\* update_cms_testing_data.py lines 97-108
update_cms_testing_data_Fields ==
  [class_name |-> "Fields",
   decorators |-> {"unique"},
   bases |-> <<"GetByValueMixin", "FieldNameAndCommonField", "Enum">>,
   body |-> <<
     [name |-> "COUNTY", value |-> "County",
      common_field |-> "COUNTY"],
     [name |-> "FIPS_CODE", value |-> "FIPS Code",
      common_field |-> "FIPS"],
     [name |-> "STATE", value |-> "State",
      common_field |-> "STATE"],
     [name |-> "FEMA_REGION", value |-> "FEMA Region",
      common_field |-> None],
     [name |-> "POPULATION", value |-> "Population",
      common_field |-> None],
     [name |-> "URBAN_RURAL", value |-> "NCHS Urban Rural Classification",
      common_field |-> None],
     [name |-> "TESTS_14D", value |-> "Tests in prior 14 days",
      common_field |-> None],
     [name |-> "TESTS_14D_NORMALIZED", value |-> "14-day test rate per 100,000 population",
      common_field |-> None],
     [name |-> "TEST_POSITIVITY", value |-> "Percent Positivity in prior 14 days",
      common_field |-> "TEST_POSITIVITY_14D"],
     [name |-> "POSITIVITY_CLASSIFICATION", value |-> "Test Positivity Classification - 14 days",
      common_field |-> None]>>]

\* A variant of StateFields in which the last entry was copied from the one
\* before it and kept its canonical field.
update_covid_care_map_StateFieldsCopiedEntry ==
  [class_name |-> "StateFields",
   decorators |-> {"unique"},
   bases |-> <<"GetByValueMixin", "FieldNameAndCommonField", "Enum">>,
   body |-> <<
     [name |-> "STATE", value |-> "State",
      common_field |-> "STATE"],
     [name |-> "STAFFED_ALL_BEDS", value |-> "Staffed All Beds",
      common_field |-> "STAFFED_BEDS"],
     [name |-> "STAFFED_ICU_BEDS", value |-> "Staffed ICU Beds",
      common_field |-> "ICU_BEDS"],
     [name |-> "LICENSED_ALL_BEDS", value |-> "Licensed All Beds",
      common_field |-> "LICENSED_BEDS"],
     [name |-> "ALL_BED_TYPICAL_OCCUPANCY_RATE", value |-> "All Bed Occupancy Rate",
      common_field |-> "ALL_BED_TYPICAL_OCCUPANCY_RATE"],
     [name |-> "ICU_TYPICAL_OCCUPANCY_RATE", value |-> "ICU Bed Occupancy Rate",
      common_field |-> "ALL_BED_TYPICAL_OCCUPANCY_RATE"]>>]

\* update_covid_care_map.py lines 26-36
update_covid_care_map_StateFields ==
  [class_name |-> "StateFields",
   decorators |-> {"unique"},
   bases |-> <<"GetByValueMixin", "FieldNameAndCommonField", "Enum">>,
   body |-> <<
     [name |-> "STATE", value |-> "State",
      common_field |-> "STATE"],
     [name |-> "STAFFED_ALL_BEDS", value |-> "Staffed All Beds",
      common_field |-> "STAFFED_BEDS"],
     [name |-> "STAFFED_ICU_BEDS", value |-> "Staffed ICU Beds",
      common_field |-> "ICU_BEDS"],
     [name |-> "LICENSED_ALL_BEDS", value |-> "Licensed All Beds",
      common_field |-> "LICENSED_BEDS"],
     [name |-> "ALL_BED_TYPICAL_OCCUPANCY_RATE", value |-> "All Bed Occupancy Rate",
      common_field |-> "ALL_BED_TYPICAL_OCCUPANCY_RATE"],
     [name |-> "ICU_TYPICAL_OCCUPANCY_RATE", value |-> "ICU Bed Occupancy Rate",
      common_field |-> "ICU_TYPICAL_OCCUPANCY_RATE"]>>]

\* update_covid_care_map.py lines 39-51
update_covid_care_map_CountyFields ==
  [class_name |-> "CountyFields",
   decorators |-> {"unique"},
   bases |-> <<"GetByValueMixin", "FieldNameAndCommonField", "Enum">>,
   body |-> <<
     [name |-> "FIPS", value |-> "fips_code",
      common_field |-> "FIPS"],
     [name |-> "STATE", value |-> "State",
      common_field |-> "STATE"],
     [name |-> "COUNTY", value |-> "County Name",
      common_field |-> "COUNTY"],
     [name |-> "STAFFED_ALL_BEDS", value |-> "Staffed All Beds",
      common_field |-> "STAFFED_BEDS"],
     [name |-> "STAFFED_ICU_BEDS", value |-> "Staffed ICU Beds",
      common_field |-> "ICU_BEDS"],
     [name |-> "LICENSED_ALL_BEDS", value |-> "Licensed All Beds",
      common_field |-> "LICENSED_BEDS"],
     [name |-> "ALL_BED_TYPICAL_OCCUPANCY_RATE", value |-> "All Bed Occupancy Rate",
      common_field |-> "ALL_BED_TYPICAL_OCCUPANCY_RATE"],
     [name |-> "ICU_TYPICAL_OCCUPANCY_RATE", value |-> "ICU Bed Occupancy Rate",
      common_field |-> "ICU_TYPICAL_OCCUPANCY_RATE"]>>]

\* update_covid_tracking_data.py lines 81-157
update_covid_tracking_data_Fields ==
  [class_name |-> "Fields",
   decorators |-> {"unique"},
   bases |-> <<"GetByValueMixin", "FieldNameAndCommonField", "Enum">>,
   body |-> <<
     [name |-> "DATE_CHECKED", value |-> "dateChecked",
      common_field |-> None],
     [name |-> "STATE", value |-> "state",
      common_field |-> "STATE"],
     [name |-> "POSITIVE_TESTS", value |-> "positive",
      common_field |-> "POSITIVE_TESTS"],
     [name |-> "POSITIVE_INCREASE", value |-> "positiveIncrease",
      common_field |-> None],
     [name |-> "NEGATIVE_TESTS", value |-> "negative",
      common_field |-> "NEGATIVE_TESTS"],
     [name |-> "NEGATIVE_INCREASE", value |-> "negativeIncrease",
      common_field |-> None],
     [name |-> "TOTAL_HOSPITALIZED", value |-> "hospitalized",
      common_field |-> "CUMULATIVE_HOSPITALIZED"],
     [name |-> "CURRENT_HOSPITALIZED", value |-> "hospitalizedCurrently",
      common_field |-> "CURRENT_HOSPITALIZED"],
     [name |-> "HOSPITALIZED_INCREASE", value |-> "hospitalizedIncrease",
      common_field |-> None],
     [name |-> "DEATHS", value |-> "death",
      common_field |-> "DEATHS"],
     [name |-> "DEATH_INCREASE", value |-> "deathIncrease",
      common_field |-> None],
     [name |-> "PENDING", value |-> "pending",
      common_field |-> None],
     [name |-> "TOTAL_TEST_RESULTS", value |-> "totalTestResults",
      common_field |-> "TOTAL_TESTS"],
     [name |-> "TOTAL_TEST_RESULTS_INCREASE", value |-> "totalTestResultsIncrease",
      common_field |-> None],
     [name |-> "IN_ICU_CURRENTLY", value |-> "inIcuCurrently",
      common_field |-> "CURRENT_ICU"],
     [name |-> "IN_ICU_CUMULATIVE", value |-> "inIcuCumulative",
      common_field |-> "CUMULATIVE_ICU"],
     [name |-> "ON_VENTILATOR_CURRENTLY", value |-> "onVentilatorCurrently",
      common_field |-> "CURRENT_VENTILATED"],
     [name |-> "TOTAL_ON_VENTILATOR", value |-> "onVentilatorCumulative",
      common_field |-> None],
     [name |-> "DATE", value |-> "date",
      common_field |-> None],
     [name |-> "FIPS", value |-> "fips",
      common_field |-> "FIPS"],
     [name |-> "TOTAL_TESTS_PEOPLE_ANTIBODY", value |-> "totalTestsPeopleAntibody",
      common_field |-> None],
     [name |-> "DATE_MODIFIED", value |-> "dateModified",
      common_field |-> None],
     [name |-> "NEGATIVE_SCORE", value |-> "negativeScore",
      common_field |-> None],
     [name |-> "POS_NEG", value |-> "posNeg",
      common_field |-> None],
     [name |-> "DEATH_CONFIRMED", value |-> "deathConfirmed",
      common_field |-> None],
     [name |-> "DEATH_PROBABLE", value |-> "deathProbable",
      common_field |-> None],
     [name |-> "TOTAL_TESTS_ANTIBODY", value |-> "totalTestsAntibody",
      common_field |-> None],
     [name |-> "HOSPITALIZED_CUMULATIVE", value |-> "hospitalizedCumulative",
      common_field |-> None],
     [name |-> "TOTAL_TESTS_ANTIGEN", value |-> "totalTestsAntigen",
      common_field |-> None],
     [name |-> "POSITIVE_TESTS_PEOPLE_ANTIBODY", value |-> "positiveTestsPeopleAntibody",
      common_field |-> None],
     [name |-> "TOTAL_TEST_RESULTS_SOURCE", value |-> "totalTestResultsSource",
      common_field |-> None],
     [name |-> "CHECK_TIME_ET", value |-> "checkTimeEt",
      common_field |-> None],
     [name |-> "POSITIVE_TESTS_ANTIGEN", value |-> "positiveTestsAntigen",
      common_field |-> None],
     [name |-> "TOTAL_TESTS_PEOPLE_VIRAL", value |-> "totalTestsPeopleViral",
      common_field |-> "TOTAL_TESTS_PEOPLE_VIRAL"],
     [name |-> "TOTAL_TESTS_VIRAL", value |-> "totalTestsViral",
      common_field |-> "TOTAL_TESTS_VIRAL"],
     [name |-> "RECOVERED", value |-> "recovered",
      common_field |-> None],
     [name |-> "NEGATIVE_TESTS_ANTIBODY", value |-> "negativeTestsAntibody",
      common_field |-> None],
     [name |-> "COMMERCIAL_SCORE", value |-> "commercialScore",
      common_field |-> None],
     [name |-> "POSITIVE_CASES_VIRAL", value |-> "positiveCasesViral",
      common_field |-> "POSITIVE_CASES_VIRAL"],
     [name |-> "SCORE", value |-> "score",
      common_field |-> None],
     [name |-> "LAST_UPDATE_ET", value |-> "lastUpdateEt",
      common_field |-> None],
     [name |-> "NEGATIVE_TESTS_PEOPLE_ANTIBODY", value |-> "negativeTestsPeopleAntibody",
      common_field |-> None],
     [name |-> "TOTAL", value |-> "total",
      common_field |-> None],
     [name |-> "HASH", value |-> "hash",
      common_field |-> None],
     [name |-> "DATA_QUALITY_GRADE", value |-> "dataQualityGrade",
      common_field |-> None],
     [name |-> "NEGATIVE_REGULAR_SCORE", value |-> "negativeRegularScore",
      common_field |-> None],
     [name |-> "POSITIVE_TESTS_ANTIBODY", value |-> "positiveTestsAntibody",
      common_field |-> None],
     [name |-> "POSITIVE_TESTS_VIRAL", value |-> "positiveTestsViral",
      common_field |-> "POSITIVE_TESTS_VIRAL"],
     [name |-> "TOTAL_TEST_ENCOUNTERS_VIRAL", value |-> "totalTestEncountersViral",
      common_field |-> "TOTAL_TEST_ENCOUNTERS_VIRAL"],
     [name |-> "TOTAL_TESTS_PEOPLE_ANTIGEN", value |-> "totalTestsPeopleAntigen",
      common_field |-> None],
     [name |-> "NEGATIVE_TESTS_VIRAL", value |-> "negativeTestsViral",
      common_field |-> None],
     [name |-> "GRADE", value |-> "grade",
      common_field |-> None],
     [name |-> "POSITIVE_SCORE", value |-> "positiveScore",
      common_field |-> None],
     [name |-> "POSITIVE_TESTS_PEOPLE_ANTIGEN", value |-> "positiveTestsPeopleAntigen",
      common_field |-> None],
     [name |-> "PROBABLE_CASES", value |-> "probableCases",
      common_field |-> None]>>]

\* update_hhs_hospital_data.py lines 42-60
update_hhs_hospital_data_Fields ==
  [class_name |-> "Fields",
   decorators |-> {"unique"},
   bases |-> <<"GetByValueMixin", "FieldNameAndCommonField", "Enum">>,
   body |-> <<
     [name |-> "PROVIDER", value |-> "provider",
      common_field |-> None],
     [name |-> "DATE", value |-> "dt",
      common_field |-> "DATE"],
     [name |-> "FIPS", value |-> "fips",
      common_field |-> "FIPS"],
     [name |-> "LOCATION", value |-> "location",
      common_field |-> None],
     [name |-> "VARIABLE_NAME", value |-> "variable_name",
      common_field |-> None],
     [name |-> "MEASUREMENT", value |-> "measurement",
      common_field |-> None],
     [name |-> "UNIT", value |-> "unit",
      common_field |-> None],
     [name |-> "AGE", value |-> "age",
      common_field |-> None],
     [name |-> "RACE", value |-> "race",
      common_field |-> None],
     [name |-> "SEX", value |-> "sex",
      common_field |-> None],
     [name |-> "VALUE", value |-> "value",
      common_field |-> None],
     [name |-> "ICU_BEDS", value |-> "adult_icu_beds_capacity",
      common_field |-> "ICU_BEDS"],
     [name |-> "ADULT_ICU_BEDS_IN_USE", value |-> "adult_icu_beds_in_use",
      common_field |-> "CURRENT_ICU_TOTAL"],
     [name |-> "ADULT_ICU_BEDS_IN_USE_COVID", value |-> "adult_icu_beds_in_use_covid",
      common_field |-> "CURRENT_ICU"],
     [name |-> "HOSPITAL_BEDS_CAPACITY", value |-> "hospital_beds_capacity",
      common_field |-> "STAFFED_BEDS"],
     [name |-> "HOSPITAL_BEDS_IN_USE", value |-> "hospital_beds_in_use",
      common_field |-> "HOSPITAL_BEDS_IN_USE_ANY"],
     [name |-> "HOSPITAL_BEDS_IN_USE_COVID", value |-> "hospital_beds_in_use_covid",
      common_field |-> "CURRENT_HOSPITALIZED"]>>]

\* update_hhs_testing_data.py lines 49-65
update_hhs_testing_data_Fields ==
  [class_name |-> "Fields",
   decorators |-> {"unique"},
   bases |-> <<"GetByValueMixin", "FieldNameAndCommonField", "Enum">>,
   body |-> <<
     [name |-> "DATE", value |-> "date",
      common_field |-> "DATE"],
     [name |-> "STATE_FIPS", value |-> "state_fips",
      common_field |-> "FIPS"],
     [name |-> "STATE", value |-> "state",
      common_field |-> "STATE"],
     [name |-> "OVERALL_OUTCOME", value |-> "overall_outcome",
      common_field |-> None],
     [name |-> "TOTAL_RESULTS_REPORTED", value |-> "total_results_reported",
      common_field |-> None],
     [name |-> "POSITIVE", value |-> "Positive",
      common_field |-> "POSITIVE_TESTS"],
     [name |-> "NEGATIVE", value |-> "Negative",
      common_field |-> "NEGATIVE_TESTS"]>>]

\* The source mappings the scripts declare.
SourceMappings ==
  {ccd_helpers_Fields, update_cdc_test_data_Fields, update_cms_testing_data_Fields,
   update_covid_care_map_StateFields, update_covid_care_map_CountyFields,
   update_covid_tracking_data_Fields, update_hhs_hospital_data_Fields,
   update_hhs_testing_data_Fields}

\* Source mappings of up to MaxMembers entries, with and without the
\* decorator, over two member names, two native names and two canonical
\* fields.
SmallEntries ==
  [name : {"A", "B"}, value : {"dt", "date"}, common_field : {None, "DATE", "FIPS"}]

SmallMappings ==
  {[class_name |-> "Fields",
    decorators |-> decorators,
    bases |-> <<"GetByValueMixin", "FieldNameAndCommonField", "Enum">>,
    body |-> body] :
     decorators \in {{}, {"unique"}}, body \in SeqsUpTo(SmallEntries, MaxMembers)}

\* One of the bases of the class statement.
HasBase(decl, base) == \E i \in 1..Len(decl.bases) : decl.bases[i] = base

\* hasattr(CommonFields, name): a member of that name is declared.
HasMember(decl, name) == \E i \in 1..Len(decl.body) : decl.body[i].name = name

\* CommonFields.NAME.value
MemberValue(decl, name) ==
  (CHOOSE e \in {decl.body[i] : i \in 1..Len(decl.body)} : e.name = name).value

\* The execution of the body of the class statement and the making of the
\* members, entry by entry.  Evaluating CommonFields.X for a name X that
\* CommonFields does not declare raises AttributeError; assigning a member
\* name a second time raises TypeError; an entry whose value equals the value
\* of an earlier member becomes an alias of that member and no member itself.
\* The value of an entry of a source mapping is the FieldNameAndCommonField
\* made from it, a str that compares as its native name whatever its
\* common_field (common_fields.py lines 148-154).
RECURSIVE ClassBody(_, _, _, _)
ClassBody(body, mapping, members, aliases) ==
  IF body = <<>>
  THEN [raised |-> None, members |-> members, aliases |-> aliases]
  ELSE LET entry == Head(body)
       IN IF mapping /\ entry.common_field # None
                     /\ ~HasMember(CommonFields, entry.common_field)
          THEN [raised |-> "AttributeError", members |-> members, aliases |-> aliases]
          ELSE IF \/ \E i \in 1..Len(members) : members[i].name = entry.name
                  \/ entry.name \in aliases
          THEN [raised |-> "TypeError", members |-> members, aliases |-> aliases]
          ELSE IF \E i \in 1..Len(members) : members[i].value = entry.value
          THEN ClassBody(Tail(body), mapping, members, aliases \cup {entry.name})
          ELSE ClassBody(Tail(body), mapping, Append(members, entry), aliases)

\* A variant of the class statement that ignores the decorator.
EnumMetaWithoutUnique(decl) ==
  LET walked == ClassBody(decl.body, HasBase(decl, "FieldNameAndCommonField"),
                          <<>>, {})
  IN IF walked.raised # None
     THEN [outcome |-> walked.raised, members |-> <<>>]
     ELSE [outcome |-> "defined", members |-> walked.members]

\* The class statement as a whole: the body, then @enum.unique, which raises
\* ValueError when the class has an alias.  members is list(cls).
EnumMeta(decl) ==
  LET walked == ClassBody(decl.body, HasBase(decl, "FieldNameAndCommonField"),
                          <<>>, {})
  IN IF walked.raised # None
     THEN [outcome |-> walked.raised, members |-> <<>>]
     ELSE IF "unique" \in decl.decorators /\ walked.aliases # {}
     THEN [outcome |-> "ValueError", members |-> <<>>]
     ELSE [outcome |-> "defined", members |-> walked.members]

\* A variant of get that calls the class, cls(value), which raises
\* ValueError for a value of no member.
EnumGetByCall(members, value) ==
  LET found == SelectSeq(members, LAMBDA m : m.value = value)
  IN IF found = <<>>
     THEN [outcome |-> "ValueError", returned |-> <<>>]
     ELSE [outcome |-> "returned", returned |-> found]

\* GetByValueMixin.get on a defined class, given its members:
\* cls._value2member_map_.get(value, None).  What is returned is a sequence
\* of at most one member, <<>> standing for None.
EnumGet(members, value) ==
  [outcome |-> "returned",
   returned |-> SelectSeq(members, LAMBDA m : m.value = value)]

\* str(member), as the pieces of the text.  A class with ValueAsStrMixin
\* answers with the value (common_fields.py lines 20-22); in a class without
\* it, EnumMeta puts Enum.__str__ in the place of the __str__ the member
\* type inherits from str, and the text is ClassName.MEMBER_NAME.
EnumStr(decl, member) ==
  IF HasBase(decl, "ValueAsStrMixin")
  THEN <<member.value>>
  ELSE <<decl.class_name, ".", member.name>>

\* The mapping a defined source mapping stands for in rename_fields: the
\* native name of each member to the value of its common field, or None.
FieldsOf(members) ==
  [native \in {members[i].value : i \in 1..Len(members)} |->
     LET member == CHOOSE m \in {members[i] : i \in 1..Len(members)} :
                     m.value = native
     IN IF member.common_field = None THEN None
        ELSE MemberValue(CommonFields, member.common_field)]

\* A variant of line 145 that counts from one.
COMMON_FIELDS_ORDER_MAP_FromOne ==
  LET members == EnumMeta(CommonFields).members
  IN [common \in {members[i].value : i \in 1..Len(members)} |->
        CHOOSE i \in 1..Len(members) : members[i].value = common]

\* common_fields.py line 145: {common: i for i, common in
\* enumerate(CommonFields)}.  A member is a key as its value.
COMMON_FIELDS_ORDER_MAP ==
  LET members == EnumMeta(CommonFields).members
  IN [common \in {members[i].value : i \in 1..Len(members)} |->
        (CHOOSE i \in 1..Len(members) : members[i].value = common) - 1]

\* The values looked up in a defined class: the values of its members, and
\* their names, the empty string and one more column name besides.
LookupValues(members) ==
  {members[i].value : i \in 1..Len(members)}
    \cup {members[i].name : i \in 1..Len(members)}
    \cup {"", "foo"}

\* ------------------------------------ update_covid_tracking_data.transform
\* A table of rows is a sequence of records, one field for every column.  A
\* numeric cell is a sequence of at most one number: <<>> is NaN, the
\* missing value.  A FIPS code is the sequence of its characters.
NaN == <<>>

\* a > b on two numeric cells: a comparison with NaN is False.
GreaterThan(a, b) == a # NaN /\ b # NaN /\ a[1] > b[1]

ICU_HOSPITALIZED_MISMATCH_WARNING_MESSAGE ==
  "Removed ICU current where it is more than hospitalized current"
NON_STATE_REGIONS_MESSAGE == "Ignoring unexpected non-state regions"

\* The columns of the table load_local_json gives, in order; every column
\* is a native name of Fields.
TrackingColumns ==
  <<"date", "state", "positive", "negative", "fips", "inIcuCurrently",
    "hospitalizedCurrently", "pending">>

\* The digits of the dates of the input, which come as text in the form
\* %Y%m%d.
DateDigits ==
  "20200401" :> <<2, 0, 2, 0, 0, 4, 0, 1>> @@ "20200717" :> <<2, 0, 2, 0, 0, 7, 1, 7>>

\* line 169: pd.to_datetime(text, format="%Y%m%d")
to_datetime(text) ==
  LET d == DateDigits[text]
  IN [year |-> 1000 * d[1] + 100 * d[2] + 10 * d[3] + d[4],
      month |-> 10 * d[5] + d[6],
      day |-> 10 * d[7] + d[8]]

\* Where a row of the input is from: a state, a date and a FIPS code.
TrackingPlaces ==
  {[state |-> "TX", date |-> "20200401", fips |-> <<"4", "8">>],
   [state |-> "CT", date |-> "20200717", fips |-> <<"0", "9">>],
   [state |-> "CT", date |-> "20200401", fips |-> <<"0", "9">>],
   [state |-> "TX", date |-> "20200401", fips |-> <<"4", "8", "0", "0", "1">>]}

TrackingRows ==
  {[date |-> place.date, state |-> place.state, positive |-> <<10>>,
    negative |-> <<1000>>, fips |-> place.fips, inIcuCurrently |-> icu,
    hospitalizedCurrently |-> hospitalized, pending |-> NaN] :
     place \in TrackingPlaces, icu \in {NaN, <<1>>, <<5>>},
     hospitalized \in {NaN, <<3>>}}

TrackingTables == SeqsUpTo(TrackingRows, MaxRows)

\* lines 165-167: the testing numbers of Connecticut on three days are set
\* to NaN.
RemoveConnecticutDays(rows) ==
  [i \in 1..Len(rows) |->
     IF rows[i].state = "CT" /\ rows[i].date \in {"20200717", "20200718", "20200719"}
     THEN [rows[i] EXCEPT !.negative = NaN, !.positive = NaN]
     ELSE rows[i]]

\* line 169
ConvertDate(rows) ==
  [i \in 1..Len(rows) |-> [rows[i] EXCEPT !.date = to_datetime(rows[i].date)]]

\* line 173
icu_mask(rows) ==
  [i \in 1..Len(rows) |->
     GreaterThan(rows[i].inIcuCurrently, rows[i].hospitalizedCurrently)]

\* A variant of line 175 that clears the other column of the comparison.
MaskHospitalized(rows) ==
  [i \in 1..Len(rows) |->
     IF GreaterThan(rows[i].inIcuCurrently, rows[i].hospitalizedCurrently)
     THEN [rows[i] EXCEPT !.hospitalizedCurrently = NaN]
     ELSE rows[i]]

\* line 175: df.loc[icu_mask, Fields.IN_ICU_CURRENTLY] = np.nan
MaskIcu(rows) ==
  [i \in 1..Len(rows) |->
     IF icu_mask(rows)[i] THEN [rows[i] EXCEPT !.inIcuCurrently = NaN]
     ELSE rows[i]]

\* lines 176-180: the warning, with the number of rows changed and the
\* number of states they are of.
MismatchWarning(rows) ==
  LET changed == {i \in 1..Len(rows) : icu_mask(rows)[i]}
  IN [event |-> ICU_HOSPITALIZED_MISMATCH_WARNING_MESSAGE,
      lines_changed |-> Cardinality(changed),
      unique_states |-> Cardinality({rows[i].state : i \in changed})]

\* The mapping of the script, as rename_fields reads it.
TrackingFields == FieldsOf(EnumMeta(update_covid_tracking_data_Fields).members)

\* The frame of columns of a table of rows, for rename_fields.
FrameOf(columns) == [i \in 1..Len(columns) |-> [name |-> columns[i], data |-> i]]

\* The rows of a table under the columns rename_fields returned.
RenamedRows(rows, columns, renamed) ==
  [i \in 1..Len(rows) |->
     [name \in {renamed[k].name : k \in 1..Len(renamed)} |->
        rows[i][columns[renamed[CHOOSE k \in 1..Len(renamed) :
                                  renamed[k].name = name].data]]]]

\* A column set to one value in every row: df[name] = value.
WithColumn(rows, name, value) ==
  [i \in 1..Len(rows) |->
     [n \in DOMAIN rows[i] \cup {name} |-> IF n = name THEN value ELSE rows[i][n]]]

\* A variant of line 195 that takes every FIPS of at least two characters.
states_binary_mask_at_least(rows) ==
  [i \in 1..Len(rows) |-> Len(rows[i].fips) >= 2]

\* line 195: df[CommonFields.FIPS].str.len() == 2
states_binary_mask(rows) == [i \in 1..Len(rows) |-> Len(rows[i].fips) = 2]

\* lines 160-202.  df is the table of the caller after the call: lines 167,
\* 169 and 175 assign into it.
transform(in_df) ==
  LET dated == ConvertDate(RemoveConnecticutDays(in_df))
      any_mismatch == \E i \in 1..Len(dated) : icu_mask(dated)[i]
      masked == IF any_mismatch THEN MaskIcu(dated) ELSE dated
      warned == IF any_mismatch THEN <<MismatchWarning(dated)>> ELSE <<>>
      renamed == rename_fields(FrameOf(TrackingColumns), TrackingFields,
                               <<"date">>, TRUE)
      rows == WithColumn(RenamedRows(masked, TrackingColumns, renamed.result),
                         "country", "USA")
      mask == states_binary_mask(rows)
      all_states == \A i \in 1..Len(rows) : mask[i]
  IN IF \E i \in 1..Len(masked) : icu_mask(masked)[i]
     THEN [outcome |-> "AssertionError", logs |-> warned, result |-> <<>>,
           df |-> masked]
     ELSE IF renamed.outcome # "returned"
     THEN [outcome |-> renamed.outcome, logs |-> warned \o renamed.logs,
           result |-> <<>>, df |-> masked]
     ELSE [outcome |-> "returned",
           logs |-> warned \o renamed.logs
                    \o (IF all_states THEN <<>>
                        ELSE <<[event |-> NON_STATE_REGIONS_MESSAGE]>>),
           result |-> WithColumn(IF all_states THEN rows ELSE Loc(rows, mask),
                                 "aggregate_level", "state"),
           df |-> masked]

\* ------------------------------- update_cdc_test_data._remove_trailing_zeros
\* A series is a sequence of entries [date, value] in the order of its
\* index; a date is a number of days, a value a numeric cell.
\* remove_trailing_zeros sorts the table by FIPS and date before it groups
\* it by FIPS (line 54), so the index of a series is in ascending order.
SeriesEntries == [date : 1..MaxDays, value : {NaN, <<0>>, <<2>>}]

IsSortedByDate(series) ==
  \A i \in 1..Len(series) - 1 : series[i].date <= series[i + 1].date

SeriesOfDates == {series \in SeqsUpTo(SeriesEntries, MaxEntries) : IsSortedByDate(series)}

\* A variant of last_valid_index that takes the last entry, present or not.
last_index(series) ==
  IF series = <<>> THEN <<>> ELSE <<series[Len(series)].date>>

\* Series.last_valid_index(): the label of the last entry that is not NaN,
\* as a sequence of at most one date; <<>> is None.
last_valid_index(series) ==
  LET valid == {i \in 1..Len(series) : series[i].value # NaN}
  IN IF valid = {} THEN <<>>
     ELSE <<series[CHOOSE i \in valid : \A j \in valid : j <= i].date>>

\* series.loc[series != 0]: NaN != 0 is True.
NonZero(series) == SelectSeq(series, LAMBDA entry : entry.value # <<0>>)

\* series[start:] = None on an index in ascending order: every entry whose
\* label is start or later.
ClearFrom(series, start) ==
  [i \in 1..Len(series) |->
     IF series[i].date >= start THEN [series[i] EXCEPT !.value = NaN]
     ELSE series[i]]

\* A variant of line 39 that works on the series of the caller.
SeriesClearedInPlace(series, cleared) == cleared

\* line 39: series = series.copy(); the series of the caller after the call.
SeriesAfterCopy(series, cleared) == series

\* lines 37-50
\* result is what is returned, series the argument after the call.
remove_trailing_zeros_of_series(series) ==
  LET index == last_valid_index(NonZero(series))
      cleared == IF index = <<>> THEN ClearFrom(series, 1)
                 ELSE ClearFrom(series, index[1] + 1)
  IN [result |-> cleared, series |-> SeriesAfterCopy(series, cleared)]

\* --------------------------------- update_hhs_hospital_data.filter_early_data
DEFAULT_START_DATE == "2020-09-01"

\* lines 26-39; CustomStartOrder is the order of the items of the dict.
CUSTOM_START_DATES ==
  "02" :> "2020-10-06" @@
  "04" :> "2020-09-02" @@
  "15" :> "2020-10-10" @@
  "16" :> "2020-10-17" @@
  "19" :> "2020-09-05" @@
  "21" :> "2020-10-15" @@
  "28" :> "2020-11-11" @@
  "34" :> "2020-09-01" @@
  "38" :> "2020-11-03" @@
  "46" :> "2020-11-02" @@
  "47" :> "2020-09-20" @@
  "53" :> "2020-10-25"

CustomStartOrder ==
  <<"02", "04", "15", "16", "19", "21", "28", "34", "38", "46", "47", "53">>

\* The digits of the start dates, which are text in the form %Y-%m-%d.
IsoDateDigits ==
  "2020-09-01" :> <<2, 0, 2, 0, 0, 9, 0, 1>> @@
  "2020-09-02" :> <<2, 0, 2, 0, 0, 9, 0, 2>> @@
  "2020-09-05" :> <<2, 0, 2, 0, 0, 9, 0, 5>> @@
  "2020-09-20" :> <<2, 0, 2, 0, 0, 9, 2, 0>> @@
  "2020-10-06" :> <<2, 0, 2, 0, 1, 0, 0, 6>> @@
  "2020-10-10" :> <<2, 0, 2, 0, 1, 0, 1, 0>> @@
  "2020-10-15" :> <<2, 0, 2, 0, 1, 0, 1, 5>> @@
  "2020-10-17" :> <<2, 0, 2, 0, 1, 0, 1, 7>> @@
  "2020-10-25" :> <<2, 0, 2, 0, 1, 0, 2, 5>> @@
  "2020-11-02" :> <<2, 0, 2, 0, 1, 1, 0, 2>> @@
  "2020-11-03" :> <<2, 0, 2, 0, 1, 1, 0, 3>> @@
  "2020-11-11" :> <<2, 0, 2, 0, 1, 1, 1, 1>>

\* pd.to_datetime(text) of a date in the form %Y-%m-%d
to_datetime_iso(text) ==
  LET d == IsoDateDigits[text]
  IN [year |-> 1000 * d[1] + 100 * d[2] + 10 * d[3] + d[4],
      month |-> 10 * d[5] + d[6],
      day |-> 10 * d[7] + d[8]]

\* a >= b on two dates
OnOrAfter(a, b) ==
  \/ a.year > b.year
  \/ a.year = b.year /\ a.month > b.month
  \/ a.year = b.year /\ a.month = b.month /\ a.day >= b.day

\* The rows of the table that update passes: states and counties, of states
\* with a start date of their own and without one, around those dates.
HospitalRows ==
  [fips : {"02", "02013", "06", "28", "34"},
   date : {[year |-> 2020, month |-> 8, day |-> 31],
           [year |-> 2020, month |-> 9, day |-> 1],
           [year |-> 2020, month |-> 10, day |-> 5],
           [year |-> 2020, month |-> 10, day |-> 6],
           [year |-> 2020, month |-> 11, day |-> 11],
           [year |-> 2021, month |-> 1, day |-> 1]}]

HospitalTables == SeqsUpTo(HospitalRows, MaxRows)

\* lines 143-147: one pass of the loop for every item from the k-th on.
RECURSIVE FilterCustomStartDates(_, _)
FilterCustomStartDates(rows, k) ==
  IF k > Len(CustomStartOrder) THEN rows
  ELSE LET fips == CustomStartOrder[k]
           start_date == to_datetime_iso(CUSTOM_START_DATES[fips])
       IN FilterCustomStartDates(
            SelectSeq(rows, LAMBDA row : row.fips # fips \/ OnOrAfter(row.date, start_date)),
            k + 1)

\* A variant without lines 140-141.
filter_early_data_custom_only(rows) == FilterCustomStartDates(rows, 1)

\* lines 139-149
filter_early_data(rows) ==
  FilterCustomStartDates(
    SelectSeq(rows, LAMBDA row : OnOrAfter(row.date, to_datetime_iso(DEFAULT_START_DATE))),
    1)

\* ---------------------------- update_covid_care_map.CovidCareMapUpdater.transform
\* A missing value in a column of text.
NoText == "nan"

\* line 23: us.states.mapping(from_field="abbr", to_field="fips"), for the
\* states of the tables below.
STATE_TO_FIPS == "NV" :> "32" @@ "UT" :> "49" @@ "TX" :> "48" @@ "VI" :> "78"

\* Series.map(STATE_TO_FIPS): a value that is no key gives a missing value.
MapStateToFips(state) ==
  IF state \in DOMAIN STATE_TO_FIPS THEN STATE_TO_FIPS[state] ELSE NoText

\* The columns of the two files, in order.
StateColumns ==
  <<"State", "Staffed All Beds", "Staffed ICU Beds", "Licensed All Beds",
    "All Bed Occupancy Rate", "ICU Bed Occupancy Rate">>

CountyColumns ==
  <<"fips_code", "State", "County Name", "Staffed All Beds", "Staffed ICU Beds",
    "Licensed All Beds", "All Bed Occupancy Rate", "ICU Bed Occupancy Rate">>

\* The numbers of beds of a row: staffed and licensed.
BedCounts == {<<NaN, <<20>>>>, <<<<30>>, <<20>>>>}

StateFileRows ==
  {"State" :> state @@ "Staffed All Beds" :> beds[1] @@ "Staffed ICU Beds" :> <<7>>
     @@ "Licensed All Beds" :> beds[2] @@ "All Bed Occupancy Rate" :> NaN
     @@ "ICU Bed Occupancy Rate" :> NaN :
     state \in DOMAIN STATE_TO_FIPS, beds \in BedCounts}

CountyFileRows ==
  {"fips_code" :> place[1] @@ "State" :> place[2] @@ "County Name" :> "county"
     @@ "Staffed All Beds" :> beds[1] @@ "Staffed ICU Beds" :> <<7>>
     @@ "Licensed All Beds" :> beds[2] @@ "All Bed Occupancy Rate" :> NaN
     @@ "ICU Bed Occupancy Rate" :> NaN :
     place \in {<<"32031", "NV">>, <<"48001", "TX">>, <<"32", "NV">>},
     beds \in BedCounts}

\* What the two files of the updater hold.
CareMapFiles ==
  [state : SeqsUpTo(StateFileRows, MaxRows), county : SeqsUpTo(CountyFileRows, MaxRows)]

StateFieldsOfFile == FieldsOf(EnumMeta(update_covid_care_map_StateFields).members)
CountyFieldsOfFile == FieldsOf(EnumMeta(update_covid_care_map_CountyFields).members)

TextColumns == {"fips", "state", "county", "aggregate_level", "country"}

\* The value of a column in a row of a concatenation; a column that the
\* table of the row does not have is missing.
Cell(row, name) ==
  IF name \in DOMAIN row THEN row[name]
  ELSE IF name \in TextColumns THEN NoText ELSE NaN

\* The names of the columns of a frame.
NamesOf(frame) == {frame[k].name : k \in 1..Len(frame)}

\* pd.concat([first, second]) of two tables whose columns together are
\* columns.
ConcatRows(first, second, columns) ==
  LET rows == first \o second
  IN [i \in 1..Len(rows) |-> [name \in columns |-> Cell(rows[i], name)]]

\* all_df.duplicated(FIPS): a row whose FIPS an earlier row has.
duplicated(rows) ==
  [i \in 1..Len(rows) |-> \E j \in 1..(i - 1) : rows[j].fips = rows[i].fips]

\* all_df.at[label, ICU_BEDS] = value in a table of the given columns: the
\* row of that label, or a new row with every other column missing.
SetIcuBedsAt(rows, columns, label, value) ==
  IF \E i \in 1..Len(rows) : rows[i].fips = label
  THEN [i \in 1..Len(rows) |->
          IF rows[i].fips = label THEN [rows[i] EXCEPT !.icu_beds = <<value>>]
          ELSE rows[i]]
  ELSE rows \o <<[name \in columns |->
                    IF name = "fips" THEN label
                    ELSE IF name = "icu_beds" THEN <<value>>
                    ELSE Cell(<<>>, name)]>>

\* DataFrame.max(axis=1) over two columns: missing values are skipped.
RowMax(a, b) ==
  IF a = NaN THEN b ELSE IF b = NaN THEN a ELSE IF a[1] >= b[1] THEN a ELSE b

\* lines 94-137
CareMapTransform(files) ==
  LET state_renamed == rename_fields(FrameOf(StateColumns), StateFieldsOfFile,
                                     <<>>, FALSE)
      county_renamed == rename_fields(FrameOf(CountyColumns), CountyFieldsOfFile,
                                      <<>>, FALSE)
      state_rows == RenamedRows(files.state, StateColumns, state_renamed.result)
      state_df ==
        WithColumn([i \in 1..Len(state_rows) |->
                      [name \in DOMAIN state_rows[i] \cup {"fips"} |->
                         IF name = "fips" THEN MapStateToFips(state_rows[i].state)
                         ELSE state_rows[i][name]]],
                   "aggregate_level", "state")
      county_df ==
        WithColumn(RenamedRows(files.county, CountyColumns, county_renamed.result),
                   "aggregate_level", "county")
      columns == NamesOf(county_renamed.result) \cup NamesOf(state_renamed.result)
                   \cup {"fips", "aggregate_level"}
      all_df == ConcatRows(county_df, state_df, columns)
      dups == duplicated(all_df)
      with_country == WithColumn(all_df, "country", "USA")
      overridden ==
        LET all_columns == columns \cup {"country"}
        IN SetIcuBedsAt(
             SetIcuBedsAt(SetIcuBedsAt(with_country, all_columns, "32031", 162),
                          all_columns, STATE_TO_FIPS["NV"], 844),
             all_columns, STATE_TO_FIPS["UT"], 564)
      with_max ==
        [i \in 1..Len(overridden) |->
           [name \in DOMAIN overridden[i] \cup {"max_bed_count"} |->
              IF name = "max_bed_count"
              THEN RowMax(Cell(overridden[i], "staffed_beds"),
                          Cell(overridden[i], "licensed_beds"))
              ELSE overridden[i][name]]]
  IN IF \E i \in 1..Len(all_df) : dups[i]
     THEN [outcome |-> "ValueError", logs |-> state_renamed.logs \o county_renamed.logs,
           result |-> <<>>]
     ELSE [outcome |-> "returned", logs |-> state_renamed.logs \o county_renamed.logs,
           result |-> SelectSeq(with_max, LAMBDA row : Cell(row, "state") # "VI")]

\* --------------------------------------------------------- the state machine
NoQuery == [kind |-> "none"]
NoCall == [op |-> "none"]
NoEnum == /\ enum_decl = <<>> /\ enum_members = <<>> /\ enum_call = NoCall

Init ==
  /\ pc = "start"
  /\ df \in DataFrames
  /\ fields \in FieldEnums
  /\ already_transformed_fields \in SUBSET ColumnNames
  /\ check_extra_fields \in BOOLEAN
  /\ atf_order = <<>>
  /\ logs = <<>>
  /\ outcome = "none"
  /\ result = <<>>
  /\ timeseries_df = <<>>
  /\ query = NoQuery
  /\ selected = <<>>
  /\ wide_df = {}
  /\ NoEnum

\* One call rename_fields(df, fields, already_transformed_fields, log,
\* check_extra_fields=check_extra_fields).
RenameFields ==
  /\ pc = "start"
  /\ \E order \in Orders(already_transformed_fields) :
       LET r == rename_fields(df, fields, order, check_extra_fields)
       IN /\ atf_order' = order
          /\ logs' = r.logs
          /\ outcome' = r.outcome
          /\ result' = r.result
          /\ df' = r.df
  /\ pc' = "done"
  /\ UNCHANGED <<fields, already_transformed_fields, check_extra_fields>>
  /\ UNCHANGED queryVars
  /\ UNCHANGED enumVars

Next == RenameFields

Spec == Init /\ [][Next]_vars

\* A dataset and one call of query_variable_for_provider on it.
InitQuery ==
  /\ pc = "loaded"
  /\ timeseries_df \in QueryFrames
  /\ query = NoQuery
  /\ selected = <<>>
  /\ wide_df = {}
  /\ outcome = "none"
  /\ df = <<>> /\ fields = <<>> /\ already_transformed_fields = {}
  /\ check_extra_fields = TRUE /\ atf_order = <<>> /\ logs = <<>> /\ result = <<>>
  /\ NoEnum

QueryVariableForProvider ==
  /\ pc = "loaded"
  /\ \E variable_name \in {"tests", "cases"}, measurement \in {"cumulative", "new"},
        provider \in {"cdc", "hhs"}, unit \in {None, "people", "specimens"} :
       /\ query' = [kind |-> "query_variable_for_provider",
                    variable_name |-> variable_name, measurement |-> measurement,
                    provider |-> provider, unit |-> unit]
       /\ selected' = query_variable_for_provider(timeseries_df, variable_name,
                                                  measurement, provider, unit)
  /\ outcome' = "returned"
  /\ pc' = "queried"
  /\ UNCHANGED <<timeseries_df, wide_df>>
  /\ UNCHANGED renameVars
  /\ UNCHANGED enumVars

NextQuery == QueryVariableForProvider

SpecQuery == InitQuery /\ [][NextQuery]_vars

\* A dataset and one call of query_multiple_variables on it.
InitPivot ==
  /\ pc = "loaded"
  /\ timeseries_df \in PivotFrames
  /\ query = NoQuery
  /\ selected = <<>>
  /\ wide_df = {}
  /\ outcome = "none"
  /\ df = <<>> /\ fields = <<>> /\ already_transformed_fields = {}
  /\ check_extra_fields = TRUE /\ atf_order = <<>> /\ logs = <<>> /\ result = <<>>
  /\ NoEnum

QueryMultipleVariables ==
  /\ pc = "loaded"
  /\ \E variables \in VariableLists, on_empty \in {"returned", "PivotError"} :
       LET r == query_multiple_variables(timeseries_df, variables, on_empty)
       IN /\ query' = [kind |-> "query_multiple_variables", variables |-> variables]
          /\ outcome' = r.outcome
          /\ wide_df' = r.wide_df
          /\ timeseries_df' = r.timeseries_df
  /\ pc' = "pivoted"
  /\ UNCHANGED selected
  /\ UNCHANGED renameVars
  /\ UNCHANGED enumVars

NextPivot == QueryMultipleVariables

SpecPivot == InitPivot /\ [][NextPivot]_vars

\* A dataset, and one ScraperVariable made and queried on it:
\* dataset.query_multiple_variables([ScraperVariable(**kwargs)]).  selected
\* is the frame that line 105 appends for the variable.
InitVariable ==
  /\ pc = "loaded"
  /\ timeseries_df \in QueryFrames
  /\ query = NoQuery
  /\ selected = <<>>
  /\ wide_df = {}
  /\ outcome = "none"
  /\ df = <<>> /\ fields = <<>> /\ already_transformed_fields = {}
  /\ check_extra_fields = TRUE /\ atf_order = <<>> /\ logs = <<>> /\ result = <<>>
  /\ NoEnum

QueryScraperVariable ==
  /\ pc = "loaded"
  /\ \E kwargs \in ScraperVariableArguments, on_empty \in {"returned", "PivotError"} :
       LET made == ScraperVariable(kwargs)
       IN /\ query' = [kind |-> "ScraperVariable", kwargs |-> kwargs]
          /\ IF made.outcome = "TypeError"
             THEN /\ outcome' = "TypeError"
                  /\ UNCHANGED <<selected, wide_df, timeseries_df>>
             ELSE LET r == query_multiple_variables(timeseries_df,
                                                    <<made.variable>>, on_empty)
                  IN /\ outcome' = r.outcome
                     /\ selected' = SelectVariable(timeseries_df, made.variable)
                     /\ wide_df' = r.wide_df
                     /\ timeseries_df' = r.timeseries_df
  /\ pc' = "selected"
  /\ UNCHANGED renameVars
  /\ UNCHANGED enumVars

NextVariable == QueryScraperVariable

SpecVariable == InitVariable /\ [][NextVariable]_vars

\* A table as load_local_json gives it, and one call transform(df).
InitTracking ==
  /\ pc = "loaded"
  /\ df \in TrackingTables
  /\ query = NoQuery
  /\ logs = <<>> /\ outcome = "none" /\ result = <<>>
  /\ fields = <<>> /\ already_transformed_fields = {}
  /\ check_extra_fields = TRUE /\ atf_order = <<>>
  /\ timeseries_df = <<>> /\ selected = <<>> /\ wide_df = {}
  /\ NoEnum

TransformTracking ==
  /\ pc = "loaded"
  /\ LET r == transform(df)
     IN /\ query' = [kind |-> "transform", df |-> df]
        /\ logs' = r.logs
        /\ outcome' = r.outcome
        /\ result' = r.result
        /\ df' = r.df
  /\ pc' = "transformed"
  /\ UNCHANGED <<fields, already_transformed_fields, check_extra_fields, atf_order>>
  /\ UNCHANGED <<timeseries_df, selected, wide_df>>
  /\ UNCHANGED enumVars

NextTracking == TransformTracking

SpecTracking == InitTracking /\ [][NextTracking]_vars

\* One series of a FIPS, _remove_trailing_zeros applied to it and then to
\* what it returned.
InitSeries ==
  /\ pc = "loaded"
  /\ df \in SeriesOfDates
  /\ query = NoQuery
  /\ logs = <<>> /\ outcome = "none" /\ result = <<>>
  /\ fields = <<>> /\ already_transformed_fields = {}
  /\ check_extra_fields = TRUE /\ atf_order = <<>>
  /\ timeseries_df = <<>> /\ selected = <<>> /\ wide_df = {}
  /\ NoEnum

RemoveTrailingZeros ==
  /\ pc = "loaded"
  /\ LET r == remove_trailing_zeros_of_series(df)
     IN /\ query' = [kind |-> "_remove_trailing_zeros", series |-> df]
        /\ result' = r.result
        /\ df' = r.series
  /\ outcome' = "returned"
  /\ pc' = "cleaned"
  /\ UNCHANGED <<logs, fields, already_transformed_fields, check_extra_fields, atf_order>>
  /\ UNCHANGED <<timeseries_df, selected, wide_df>>
  /\ UNCHANGED enumVars

RemoveTrailingZerosAgain ==
  /\ pc = "cleaned"
  /\ LET r == remove_trailing_zeros_of_series(result)
     IN /\ query' = [kind |-> "_remove_trailing_zeros", series |-> result]
        /\ result' = r.result
  /\ pc' = "cleaned again"
  /\ UNCHANGED <<df, outcome, logs, fields, already_transformed_fields,
                 check_extra_fields, atf_order>>
  /\ UNCHANGED <<timeseries_df, selected, wide_df>>
  /\ UNCHANGED enumVars

NextSeries == RemoveTrailingZeros \/ RemoveTrailingZerosAgain

SpecSeries == InitSeries /\ [][NextSeries]_vars

\* A table of hospital data, filter_early_data applied to it and then to what
\* it returned.
InitEarly ==
  /\ pc = "loaded"
  /\ df \in HospitalTables
  /\ query = NoQuery
  /\ logs = <<>> /\ outcome = "none" /\ result = <<>>
  /\ fields = <<>> /\ already_transformed_fields = {}
  /\ check_extra_fields = TRUE /\ atf_order = <<>>
  /\ timeseries_df = <<>> /\ selected = <<>> /\ wide_df = {}
  /\ NoEnum

FilterEarlyData ==
  /\ pc = "loaded"
  /\ query' = [kind |-> "filter_early_data", df |-> df]
  /\ result' = filter_early_data(df)
  /\ outcome' = "returned"
  /\ pc' = "filtered"
  /\ UNCHANGED <<df, logs, fields, already_transformed_fields, check_extra_fields,
                 atf_order>>
  /\ UNCHANGED <<timeseries_df, selected, wide_df>>
  /\ UNCHANGED enumVars

FilterEarlyDataAgain ==
  /\ pc = "filtered"
  /\ query' = [kind |-> "filter_early_data", df |-> result]
  /\ result' = filter_early_data(result)
  /\ pc' = "filtered again"
  /\ UNCHANGED <<df, outcome, logs, fields, already_transformed_fields,
                 check_extra_fields, atf_order>>
  /\ UNCHANGED <<timeseries_df, selected, wide_df>>
  /\ UNCHANGED enumVars

NextEarly == FilterEarlyData \/ FilterEarlyDataAgain

SpecEarly == InitEarly /\ [][NextEarly]_vars

\* The two files of the updater as update left them, and one call of
\* transform; df is what the files hold.
InitCareMap ==
  /\ pc = "loaded"
  /\ df \in CareMapFiles
  /\ query = NoQuery
  /\ logs = <<>> /\ outcome = "none" /\ result = <<>>
  /\ fields = <<>> /\ already_transformed_fields = {}
  /\ check_extra_fields = FALSE /\ atf_order = <<>>
  /\ timeseries_df = <<>> /\ selected = <<>> /\ wide_df = {}
  /\ NoEnum

TransformCareMap ==
  /\ pc = "loaded"
  /\ LET r == CareMapTransform(df)
     IN /\ logs' = r.logs
        /\ outcome' = r.outcome
        /\ result' = r.result
  /\ query' = [kind |-> "CovidCareMapUpdater.transform"]
  /\ pc' = "transformed"
  /\ UNCHANGED <<df, fields, already_transformed_fields, check_extra_fields, atf_order>>
  /\ UNCHANGED <<timeseries_df, selected, wide_df>>
  /\ UNCHANGED enumVars

NextCareMap == TransformCareMap

SpecCareMap == InitCareMap /\ [][NextCareMap]_vars

\* A dataset and one query on it, of either kind.
NextDataset == QueryVariableForProvider \/ QueryMultipleVariables

SpecDataset == InitPivot /\ [][NextDataset]_vars

\* A class statement, the definition of the class when the module is
\* imported, and then one call of get or of str on the defined class.
InitEnum ==
  /\ pc = "declared"
  /\ \/ enum_decl \in SmallMappings
     \/ enum_decl \in SourceMappings
     \/ enum_decl \in {CommonFields, PdFields}
  /\ enum_members = <<>>
  /\ enum_call = NoCall
  /\ outcome = "none"
  /\ timeseries_df = <<>> /\ query = NoQuery /\ selected = <<>> /\ wide_df = {}
  /\ df = <<>> /\ fields = <<>> /\ already_transformed_fields = {}
  /\ check_extra_fields = TRUE /\ atf_order = <<>> /\ logs = <<>> /\ result = <<>>

\* The class statement is executed.
DefineEnum ==
  /\ pc = "declared"
  /\ LET defined == EnumMeta(enum_decl)
     IN /\ outcome' = defined.outcome
        /\ enum_members' = defined.members
        /\ pc' = IF defined.outcome = "defined" THEN "defined" ELSE "rejected"
  /\ UNCHANGED <<enum_decl, enum_call>>
  /\ UNCHANGED renameVars
  /\ UNCHANGED queryVars

\* cls.get(value)
GetByValue ==
  /\ pc = "defined"
  /\ \E value \in LookupValues(enum_members) :
       LET got == EnumGet(enum_members, value)
       IN enum_call' = [op |-> "get", value |-> value, member |-> <<>>,
                        outcome |-> got.outcome, returned |-> got.returned]
  /\ pc' = "called"
  /\ UNCHANGED <<enum_decl, enum_members, outcome>>
  /\ UNCHANGED renameVars
  /\ UNCHANGED queryVars

\* str(member)
StrOfMember ==
  /\ pc = "defined"
  /\ \E i \in 1..Len(enum_members) :
       enum_call' = [op |-> "str", value |-> "", member |-> <<enum_members[i]>>,
                     outcome |-> "returned",
                     returned |-> EnumStr(enum_decl, enum_members[i])]
  /\ pc' = "called"
  /\ UNCHANGED <<enum_decl, enum_members, outcome>>
  /\ UNCHANGED renameVars
  /\ UNCHANGED queryVars

NextEnum == DefineEnum \/ GetByValue \/ StrOfMember

SpecEnum == InitEnum /\ [][NextEnum]_vars

\* ---------------------------------------------------- checked properties
Done == pc = "done"

\* The names of the columns of a frame, as a set.
ResultNames == {result[i].name : i \in 1..Len(result)}

\* The native names of an enumeration whose member carries a common field.
WithCommonField(cls) == {n \in DOMAIN cls : cls[n] # None}

\* No two members of the enumeration carry the same common field.
OneNativePerCommonField(cls) ==
  \A m, n \in WithCommonField(cls) : cls[m] = cls[n] => m = n

\* How many columns of the frame carry the name.
Occurrences(frame, name) == Cardinality({i \in 1..Len(frame) : frame[i].name = name})

\* The canonical values of the columns of df the enumeration maps.
ExpectedNames == {fields[c] : c \in ColumnSet(df) \cap WithCommonField(fields)}

\* The events of one kind in the log.
Events(event) == {i \in 1..Len(logs) : logs[i].event = event}

\* C1 as the spec states it: for a mapping in which no two entries share a
\* canonical field and for EVERY table, rename_fields(T, M, {}) returns a
\* table whose column names are exactly the canonical values of the mapped
\* columns of T.
C1_AsStated ==
  (Done /\ already_transformed_fields = {} /\ OneNativePerCommonField(fields))
    => (outcome = "returned" /\ ResultNames = ExpectedNames)

\* C1, amended: the same, for every table in which no column that the
\* mapping maps to a canonical field occurs more than once.
C1_RenamedColumnsExact ==
  (/\ Done
   /\ already_transformed_fields = {}
   /\ OneNativePerCommonField(fields)
   /\ \A c \in WithCommonField(fields) : Occurrences(df, c) <= 1)
    => (outcome = "returned" /\ ResultNames = ExpectedNames)

C1_Witness ==
  /\ Done
  /\ already_transformed_fields = {}
  /\ OneNativePerCommonField(fields)
  /\ Cardinality(WithCommonField(fields)) = 2
  /\ Len(df) = 2 /\ df[1].name # df[2].name
  /\ Cardinality(ColumnSet(df) \cap WithCommonField(fields)) = 1
  /\ ColumnSet(df) \ DOMAIN fields # {}
  /\ outcome = "returned"
  /\ Len(result) = 1

\* C2: a mapping with two native names for one canonical field makes
\* rename_fields raise AssertionError for every table; it never returns.
C2_SharedCommonFieldRaises ==
  (Done /\ ~OneNativePerCommonField(fields)) => outcome = "AssertionError"

\* Scanning the columns as lines 53-58 do: the canonical value of the column
\* at position i is already the target of a name of the set or of an earlier
\* mapped column.
TargetTaken(i) ==
  /\ df[i].name \in WithCommonField(fields)
  /\ \/ fields[df[i].name] \in already_transformed_fields
     \/ \E j \in 1..(i - 1) :
          /\ df[j].name \in WithCommonField(fields)
          /\ fields[df[j].name] = fields[df[i].name]

\* C3: for a set already_transformed_fields of columns of the table, when
\* the canonical value of the column being added is already a rename target
\* the call fails with the configuration error, so a returned table never
\* holds two columns of one name made from two source columns of different
\* names (the contents of a column tell the source column it was made from).
C3_TargetCollisionRaises ==
  (Done /\ already_transformed_fields \subseteq ColumnSet(df)) =>
    /\ (\E i \in 1..Len(df) : TargetTaken(i)) => outcome = "AssertionError"
    /\ outcome = "returned" =>
         \A i, j \in 1..Len(result) :
           result[i].name = result[j].name
             => df[result[i].data].name = df[result[j].data].name

\* C4 as the spec states it: the missing-columns warning is emitted exactly
\* when a native name that HAS a canonical field is not a column of the
\* table, and it names exactly those.
C4_AsStated ==
  Done =>
    /\ Events(MISSING_COLUMNS_MESSAGE) # {}
         <=> WithCommonField(fields) \ ColumnSet(df) # {}
    /\ \A i \in Events(MISSING_COLUMNS_MESSAGE) :
         logs[i].names = WithCommonField(fields) \ ColumnSet(df)

\* C4, amended: the missing-columns warning is emitted exactly when some
\* native name of the mapping, with or without a canonical field, is not a
\* column of the table, and it names exactly those native names.
C4_MissingWarning ==
  Done =>
    /\ Events(MISSING_COLUMNS_MESSAGE) # {}
         <=> (\E n \in DOMAIN fields : \A i \in 1..Len(df) : df[i].name # n)
    /\ \A i \in Events(MISSING_COLUMNS_MESSAGE) :
         logs[i].names = {n \in DOMAIN fields : \A k \in 1..Len(df) : df[k].name # n}

C4_Witness ==
  /\ Done
  /\ \E n \in DOMAIN fields : fields[n] = None /\ n \notin ColumnSet(df)
  /\ \E n \in DOMAIN fields : fields[n] # None /\ n \notin ColumnSet(df)
  /\ \E n \in DOMAIN fields : n \in ColumnSet(df)
  /\ Cardinality(Events(MISSING_COLUMNS_MESSAGE)) = 1

\* C5: with check_extra_fields true the extra-columns warning is emitted
\* exactly when some column of the table is neither a native name of the
\* mapping nor in already_transformed_fields, and it names exactly those.
C5_ExtraWarning ==
  (Done /\ check_extra_fields) =>
    LET unknown == {c \in ColumnNames :
                      /\ \E i \in 1..Len(df) : df[i].name = c
                      /\ c \notin DOMAIN fields
                      /\ c \notin already_transformed_fields}
    IN /\ Events(EXTRA_COLUMNS_MESSAGE) # {} <=> unknown # {}
       /\ \A i \in Events(EXTRA_COLUMNS_MESSAGE) : logs[i].names = unknown

\* The example of the spec, at the size of the model: every native name is a
\* column and one more column is unknown.
C5_Witness ==
  /\ Done /\ check_extra_fields
  /\ DOMAIN fields # {} /\ DOMAIN fields \subseteq ColumnSet(df)
  /\ \E n \in ColumnSet(df) : n \in already_transformed_fields
  /\ Len(logs) = 1
  /\ logs[1].event = EXTRA_COLUMNS_MESSAGE
  /\ Cardinality(logs[1].names) = 1

Count(frame, c) == Cardinality({i \in 1..Len(frame) : frame[i] = c})

\* The same columns, each as often, whatever their order.
SameColumns(s, t) ==
  /\ Len(s) = Len(t)
  /\ \A i \in 1..Len(s) : Count(s, s[i]) = Count(t, s[i])

\* C8: calling rename_fields on any permutation of the columns of the table
\* ends the same way and returns the same columns with the same values.
C8_ColumnOrderIndependent ==
  Done =>
    \A p \in Orders(1..Len(df)) :
      \A order \in Orders(already_transformed_fields) :
        LET other == rename_fields([i \in 1..Len(df) |-> df[p[i]]], fields, order,
                                   check_extra_fields)
        IN /\ other.outcome = outcome
           /\ SameColumns(other.result, result)

C8_Witness ==
  /\ Done
  /\ outcome = "returned"
  /\ Len(df) = 2 /\ df[1] # df[2]
  /\ Len(result) = 2 /\ result[1] # result[2]
  /\ result[1].name # df[1].name

\* ------------------------------------------ checked properties, the queries
Queried == pc = "queried"
Pivoted == pc = "pivoted"

\* The row is one the query asks for.
Wanted(row) ==
  /\ row.provider = query.provider
  /\ row.variable_name = query.variable_name
  /\ row.measurement = query.measurement
  /\ row.age = "all" /\ row.race = "all" /\ row.sex = "all"
  /\ (query.unit = None \/ row.unit = query.unit)

\* C10: query_variable_for_provider returns exactly the rows whose provider,
\* variable_name and measurement are the arguments, whose age, race and sex
\* are "all" and, when a unit is passed, whose unit is that unit; each of
\* them once and unchanged, in the order of the dataset, and no other row.
C10_SelectsExactlyMatching ==
  Queried =>
    /\ \A i \in 1..Len(timeseries_df) :
         Count(selected, timeseries_df[i]) = IF Wanted(timeseries_df[i]) THEN 1 ELSE 0
    /\ \A j \in 1..Len(selected) :
         \E i \in 1..Len(timeseries_df) : selected[j] = timeseries_df[i]
    /\ \A j, k \in 1..Len(selected) : j < k => selected[j].value < selected[k].value

C10_Witness ==
  /\ Queried
  /\ query.unit # None
  /\ Len(timeseries_df) = 2
  /\ Len(selected) = 1
  /\ \E i \in 1..Len(timeseries_df) :
       /\ timeseries_df[i].provider = query.provider
       /\ timeseries_df[i].variable_name = query.variable_name
       /\ timeseries_df[i].measurement = query.measurement
       /\ timeseries_df[i].unit = query.unit
       /\ timeseries_df[i].sex # "all"

\* The rows selected for the variables of the query, relabelled, as they
\* reach the pivot.
Combined == Concat(timeseries_df, query.variables)

\* Two of the rows fall into one cell with different values.
AmbiguousCell(rows) ==
  \E i, j \in 1..Len(rows) :
    /\ rows[i].location = rows[j].location
    /\ rows[i].dt = rows[j].dt
    /\ rows[i].location_type = rows[j].location_type
    /\ rows[i].variable_name = rows[j].variable_name
    /\ rows[i].value # rows[j].value

\* C6: query_multiple_variables raises, and returns no table, whenever two
\* selected rows have the same (location, date, location_type) and the same
\* resolved label but different values.
C6_AmbiguousCellRaises ==
  (Pivoted /\ AmbiguousCell(Combined)) => outcome # "returned"

\* The resolved label of a variable.
Label(variable) ==
  IF variable.common_field # None THEN variable.common_field
  ELSE variable.variable_name

\* The positions of the rows of the dataset a variable matches.
Matched(variable) ==
  {i \in 1..Len(timeseries_df) :
     LET row == timeseries_df[i]
     IN /\ row.provider = variable.provider
        /\ row.variable_name = variable.variable_name
        /\ row.measurement = variable.measurement
        /\ row.age = variable.age /\ row.race = variable.race
        /\ row.sex = variable.sex
        /\ (variable.unit = None \/ row.unit = variable.unit)}

\* The (location, date) of the row at a position of the dataset.
Day(i) == <<timeseries_df[i].location, timeseries_df[i].dt>>

\* Each of the two sets of positions holds exactly one row of every
\* (location, date) either of them holds, and they hold one at least.
OneRowEachDay(mv, mw) ==
  /\ mv \cup mw # {}
  /\ \A k \in mv \cup mw :
       /\ Cardinality({i \in mv : Day(i) = Day(k)}) = 1
       /\ Cardinality({i \in mw : Day(i) = Day(k)}) = 1

\* The case of C9: two variables of one provider, variable_name and
\* measurement and of different units, each matching exactly one row at
\* every (location, date).
C9_Case ==
  /\ Pivoted
  /\ Len(query.variables) = 2
  /\ LET v == query.variables[1]
         w == query.variables[2]
     IN /\ v.provider = w.provider
        /\ v.variable_name = w.variable_name
        /\ v.measurement = w.measurement
        /\ v.unit # None /\ w.unit # None /\ v.unit # w.unit
        /\ OneRowEachDay(Matched(v), Matched(w))

\* The cell of the wide row under the label is the value of each row of the
\* dataset, among those at the positions given, that has the row's
\* (location, date).
CellIsValue(row, label, positions) ==
  \A i \in positions :
    Day(i) = <<row.fips, row.date>> =>
      /\ row.cells[label].den > 0
      /\ row.cells[label].num = timeseries_df[i].value * row.cells[label].den

\* What C9 promises: one row for every (location, date), one value column
\* for each of the two variables under its label, each cell the value of the
\* one row matched.
Promised(v, w, mv, mw) ==
  /\ outcome = "returned"
  /\ \A row \in wide_df : \E k \in mv \cup mw : Day(k) = <<row.fips, row.date>>
  /\ \A k \in mv \cup mw :
       Cardinality({row \in wide_df : <<row.fips, row.date>> = Day(k)}) = 1
  /\ \A row \in wide_df :
       /\ DOMAIN row.cells = {Label(v), Label(w)}
       /\ Cardinality(DOMAIN row.cells) = 2
       /\ CellIsValue(row, Label(v), mv)
       /\ CellIsValue(row, Label(w), mw)

C9_Promise ==
  Promised(query.variables[1], query.variables[2],
           Matched(query.variables[1]), Matched(query.variables[2]))

OneTypeEachDay(mv, mw) ==
  \A i \in mv, j \in mw :
    Day(i) = Day(j) => timeseries_df[i].location_type = timeseries_df[j].location_type

\* The two variables resolve to different labels and the two rows matched
\* at one (location, date) carry the same location_type.
C9_Amendment ==
  /\ Label(query.variables[1]) # Label(query.variables[2])
  /\ OneTypeEachDay(Matched(query.variables[1]), Matched(query.variables[2]))

Unmapped(i) == df[i].name \in DOMAIN fields /\ fields[df[i].name] = None

\* The column of df at position i is a column of the result (the contents of
\* a column of the result tell the column of df it was made from).
InOutput(i) == \E k \in 1..Len(result) : result[k].data = i

\* The extra-columns warning names the column of df at position i.
NamedExtra(i) ==
  \E e \in Events(EXTRA_COLUMNS_MESSAGE) : df[i].name \in logs[e].names

\* The name that the column of the result at position k has in df.
SourceName(k) == df[result[k].data].name

C12_CheckOnlyTogglesWarning ==
  Done =>
    LET other == rename_fields(df, fields, atf_order, ~check_extra_fields)
    IN /\ other.outcome = outcome
       /\ other.result = result
       /\ \A k \in 1..Len(result) :
            SourceName(k) \in DOMAIN fields \cup already_transformed_fields
       /\ ~check_extra_fields => Events(EXTRA_COLUMNS_MESSAGE) = {}

C12_Witness ==
  /\ Done /\ ~check_extra_fields
  /\ \E i \in 1..Len(df) :
       df[i].name \notin DOMAIN fields \cup already_transformed_fields
  /\ outcome = "returned"
  /\ Len(result) >= 1

C14_EventOrder ==
  Done =>
    /\ Cardinality(Events(EXTRA_COLUMNS_MESSAGE)) <= 1
    /\ Cardinality(Events(MISSING_COLUMNS_MESSAGE)) <= 1
    /\ Len(logs) = Cardinality(Events(EXTRA_COLUMNS_MESSAGE))
                     + Cardinality(Events(MISSING_COLUMNS_MESSAGE))
    /\ \A e \in Events(EXTRA_COLUMNS_MESSAGE), m \in Events(MISSING_COLUMNS_MESSAGE) :
         e < m
    /\ ColumnSet(df) = DOMAIN fields => logs = <<>>
    /\ check_extra_fields =>
         \A old \in DOMAIN fields :
           \A new \in ColumnNames \ (DOMAIN fields \cup already_transformed_fields) :
             ColumnSet(df) = (DOMAIN fields \ {old}) \cup {new}
               => logs = <<[event |-> EXTRA_COLUMNS_MESSAGE, names |-> {new}],
                           [event |-> MISSING_COLUMNS_MESSAGE, names |-> {old}]>>

C14_Witness ==
  /\ Done /\ check_extra_fields
  /\ Cardinality(DOMAIN fields) = 2
  /\ Cardinality(ColumnSet(df)) = 2
  /\ Cardinality(ColumnSet(df) \cap DOMAIN fields) = 1
  /\ Len(logs) = 2
  /\ logs[1].event = EXTRA_COLUMNS_MESSAGE /\ Cardinality(logs[1].names) = 1
  /\ logs[2].event = MISSING_COLUMNS_MESSAGE /\ Cardinality(logs[2].names) = 1

Defined == pc \in {"defined", "called"}

\* One call was made on the defined class.
Called(op) == pc = "called" /\ enum_call.op = op

\* The class statement is one of a source mapping.
IsMapping == HasBase(enum_decl, "FieldNameAndCommonField")

UpperCase == <<"A", "B", "C", "D", "E", "F", "G", "H", "I", "J", "K", "L", "M",
               "N", "O", "P", "Q", "R", "S", "T", "U", "V", "W", "X", "Y", "Z">>
LowerCase == <<"a", "b", "c", "d", "e", "f", "g", "h", "i", "j", "k", "l", "m",
               "n", "o", "p", "q", "r", "s", "t", "u", "v", "w", "x", "y", "z">>

\* The lower-case form of a text: each capital letter by its small letter,
\* every other character as it is.
Lower(chars) ==
  [i \in 1..Len(chars) |->
     IF \E k \in 1..26 : UpperCase[k] = chars[i]
     THEN LowerCase[CHOOSE k \in 1..26 : UpperCase[k] = chars[i]]
     ELSE chars[i]]

\* The value of the member is the lower-case form of its name.
ValueIsLowerCaseName(member) == Lower(Spelling[member.name]) = Spelling[member.value]

\* C15 as the spec states it: the string value of every member of
\* CommonFields is the lower-case form of the member's declared name.
C15_AsStated ==
  (Defined /\ enum_decl.class_name = "CommonFields") =>
    \A i \in 1..Len(enum_members) : ValueIsLowerCaseName(enum_members[i])

\* C15, amended: the string value of every member of CommonFields is the
\* lower-case form of its declared name, except for
\* ALL_BED_TYPICAL_OCCUPANCY_RATE, whose value is all_beds_occupancy_rate,
\* and ICU_TYPICAL_OCCUPANCY_RATE, whose value is icu_occupancy_rate.
C15_ValuesAreLowerCaseNames ==
  (Defined /\ enum_decl.class_name = "CommonFields") =>
    \A i \in 1..Len(enum_members) :
      LET member == enum_members[i]
      IN CASE member.name = "ALL_BED_TYPICAL_OCCUPANCY_RATE" ->
                member.value = "all_beds_occupancy_rate"
           [] member.name = "ICU_TYPICAL_OCCUPANCY_RATE" ->
                member.value = "icu_occupancy_rate"
           [] OTHER -> ValueIsLowerCaseName(member)

C15_Witness ==
  /\ Called("str")
  /\ enum_decl.class_name = "CommonFields"
  /\ enum_call.member[1].name = "ICU_TYPICAL_OCCUPANCY_RATE"
  /\ enum_call.returned = <<"icu_occupancy_rate">>
  /\ \E i \in 1..Len(enum_members) :
       enum_members[i].name = "CURRENT_ICU" /\ ValueIsLowerCaseName(enum_members[i])

\* What every lookup by value answers: without raising, the member whose
\* value is the one looked up when there is one and None otherwise, and the
\* member itself for the value of a member.
LookupNeverRaises ==
  /\ Called("get") =>
       /\ enum_call.outcome = "returned"
       /\ IF \E i \in 1..Len(enum_members) : enum_members[i].value = enum_call.value
          THEN \E i \in 1..Len(enum_members) :
                 /\ enum_members[i].value = enum_call.value
                 /\ enum_call.returned = <<enum_members[i]>>
          ELSE enum_call.returned = <<>>
  /\ Defined =>
       \A i \in 1..Len(enum_members) :
         LET got == EnumGet(enum_members, enum_members[i].value)
         IN got.outcome = "returned" /\ got.returned = <<enum_members[i]>>

\* C16 as the spec states it: get never raises and answers with the member
\* of the value or None, for CommonFields and for every source mapping, and
\* for every member f of these, get(f.value) is f and str(f) is f.value.
C16_AsStated ==
  /\ LookupNeverRaises
  /\ Called("str") => enum_call.returned = <<enum_call.member[1].value>>

\* C16, amended: get never raises and answers with the member of the value
\* or None, for CommonFields and for every source mapping, and get(f.value)
\* is f for every member f of these; str(f) is f.value for the members of
\* the classes made with ValueAsStrMixin (CommonFields and PdFields), and is
\* ClassName.MEMBER_NAME for the members of the source mappings.
C16_LookupByValue ==
  /\ LookupNeverRaises
  /\ Called("str") =>
       IF HasBase(enum_decl, "ValueAsStrMixin")
       THEN enum_call.returned = <<enum_call.member[1].value>>
       ELSE enum_call.returned
              = <<enum_decl.class_name, ".", enum_call.member[1].name>>

C16_Witness ==
  /\ Called("get")
  /\ enum_decl.class_name = "CommonFields"
  /\ enum_call.value = "FIPS"
  /\ enum_call.outcome = "returned"
  /\ enum_call.returned = <<>>

\* Two entries of the body carry the same native name.
SharesNativeName(body) ==
  \E i, j \in 1..Len(body) : i # j /\ body[i].value = body[j].value

\* C17: a source mapping that declares one native name twice is rejected
\* when its class statement is executed, also when the two entries carry
\* different canonical fields, so no two members of a defined source mapping
\* share a native name.
C17_DuplicateNativeRejected ==
  (pc \in {"defined", "rejected", "called"} /\ IsMapping
     /\ "unique" \in enum_decl.decorators) =>
    /\ SharesNativeName(enum_decl.body) =>
         /\ pc = "rejected"
         /\ outcome \in {"ValueError", "TypeError", "AttributeError"}
         /\ enum_members = <<>>
    /\ outcome = "defined" =>
         /\ Len(enum_members) = Len(enum_decl.body)
         /\ \A i, j \in 1..Len(enum_members) :
              enum_members[i].value = enum_members[j].value => i = j

C17_Witness ==
  /\ pc = "rejected" /\ IsMapping
  /\ "unique" \in enum_decl.decorators
  /\ Len(enum_decl.body) = 2
  /\ enum_decl.body[1].name # enum_decl.body[2].name
  /\ enum_decl.body[1].value = enum_decl.body[2].value
  /\ enum_decl.body[1].common_field = "DATE"
  /\ enum_decl.body[2].common_field = "FIPS"
  /\ outcome = "ValueError"

\* The class statement is one of those the scripts declare.
IsSourceMapping == IsMapping /\ enum_decl \in SourceMappings

\* C18: in every source mapping the scripts declare, no two entries carry
\* the same canonical field, and the mapping of a class they define gives no
\* canonical field to two native names.
C18_DeclaredMappingsOnePerCommonField ==
  (pc \in {"defined", "rejected", "called"} /\ IsSourceMapping) =>
    /\ \A i, j \in 1..Len(enum_decl.body) :
         (/\ enum_decl.body[i].common_field # None
          /\ enum_decl.body[i].common_field = enum_decl.body[j].common_field)
           => i = j
    /\ outcome = "defined" => OneNativePerCommonField(FieldsOf(enum_members))

C18_Witness ==
  /\ pc = "defined" /\ IsSourceMapping
  /\ Len(enum_members) = 55
  /\ Cardinality(WithCommonField(FieldsOf(enum_members))) >= 2

\* C19: COMMON_FIELDS_ORDER_MAP gives every member of CommonFields an index,
\* the indices are the numbers 0..n-1, each once, and a member declared
\* before another has the smaller index; no two members have one value.
C19_OrderMapFollowsDeclaration ==
  (Defined /\ enum_decl.class_name = "CommonFields") =>
    LET n == Len(enum_members)
    IN /\ DOMAIN COMMON_FIELDS_ORDER_MAP = {enum_members[i].value : i \in 1..n}
       /\ {COMMON_FIELDS_ORDER_MAP[v] : v \in DOMAIN COMMON_FIELDS_ORDER_MAP}
            = 0..(n - 1)
       /\ \A i, j \in 1..n :
            /\ i < j => COMMON_FIELDS_ORDER_MAP[enum_members[i].value]
                          < COMMON_FIELDS_ORDER_MAP[enum_members[j].value]
            /\ enum_members[i].value = enum_members[j].value => i = j

C19_Witness ==
  /\ Called("get")
  /\ enum_decl.class_name = "CommonFields"
  /\ enum_call.returned # <<>>
  /\ enum_call.returned[1].name = "TEST_POSITIVITY"
  /\ COMMON_FIELDS_ORDER_MAP[enum_call.returned[1].value] = 45

\* ----------------------------- checked properties, rename_fields, failures
\* Scanning the columns in order, the column at position i has a canonical
\* field and its native name is already a key of the rename table: the name
\* is in already_transformed_fields or an earlier column carries it.
KeyTaken(i) ==
  /\ df[i].name \in WithCommonField(fields)
  /\ \/ df[i].name \in already_transformed_fields
     \/ \E j \in 1..(i - 1) : df[j].name = df[i].name

\* C23: rename_fields raises AssertionError exactly when, scanning the
\* columns in order, it meets a column whose mapping entry has a canonical
\* field and whose native name is already a key of the rename table (the
\* name is in already_transformed_fields, or the column name occurs twice);
\* in every other case the collision check passes.
C23_AssertionExactlyOnKeyCollision ==
  Done => (outcome = "AssertionError" <=> \E i \in 1..Len(df) : KeyTaken(i))

C23_Witness ==
  /\ Done
  /\ outcome = "AssertionError"
  /\ already_transformed_fields = {}
  /\ Len(df) = 2 /\ df[1].name = df[2].name
  /\ OneNativePerCommonField(fields)

\* The missing-columns events of a log, in order.
MissingEvents(log) == SelectSeq(log, LAMBDA e : e.event = MISSING_COLUMNS_MESSAGE)

\* C24: the missing-columns warning does not depend on check_extra_fields:
\* the call with the other value of check_extra_fields emits the
\* missing-columns event under the same condition and with the same names.
C24_MissingWarningIgnoresCheck ==
  Done =>
    /\ MissingEvents(rename_fields(df, fields, atf_order, ~check_extra_fields).logs)
         = MissingEvents(logs)
    /\ Len(MissingEvents(logs)) = 1 <=> DOMAIN fields \ ColumnSet(df) # {}

C24_Witness ==
  /\ Done /\ ~check_extra_fields
  /\ ColumnSet(df) \ (DOMAIN fields \cup already_transformed_fields) # {}
  /\ logs = <<[event |-> MISSING_COLUMNS_MESSAGE,
               names |-> DOMAIN fields \ ColumnSet(df)]>>

\* The warnings the call owes have been logged: the extra-columns event when
\* it is asked for and some column is unknown, the missing-columns event when
\* some native name is no column.
WarningsEmitted ==
  /\ (check_extra_fields
      /\ ColumnSet(df) \ (DOMAIN fields \cup already_transformed_fields) # {})
       => Events(EXTRA_COLUMNS_MESSAGE) # {}
  /\ DOMAIN fields \ ColumnSet(df) # {} => Events(MISSING_COLUMNS_MESSAGE) # {}

\* C25 as the spec states it: when already_transformed_fields contains a name
\* that is no column of the table, rename_fields returns no table: the
\* column selection fails with an error, after the warnings of the call.
C25_AsStated ==
  (Done /\ ~(already_transformed_fields \subseteq ColumnSet(df))) =>
    /\ outcome = "KeyError"
    /\ result = <<>>
    /\ WarningsEmitted

\* C25, amended: when already_transformed_fields contains a name that is no
\* column of the table, rename_fields returns no table: either the collision
\* check has raised AssertionError, or the column selection fails with
\* KeyError; in both cases after the warnings of the call.
C25_UnknownTransformedNameFails ==
  (Done /\ ~(already_transformed_fields \subseteq ColumnSet(df))) =>
    /\ outcome \in {"KeyError", "AssertionError"}
    /\ outcome = "AssertionError" <=> \E i \in 1..Len(df) : KeyTaken(i)
    /\ result = <<>>
    /\ WarningsEmitted

C25_Witness ==
  /\ Done /\ check_extra_fields
  /\ already_transformed_fields \ ColumnSet(df) # {}
  /\ outcome = "KeyError"
  /\ Len(logs) = 2
  /\ \E i \in 1..Len(df) : df[i].name \in WithCommonField(fields)

\* ------------------------------- checked properties, the dataset's table
\* The query recorded, made again on the table the dataset holds now, gives
\* what it gave.
SameAnswerAgain ==
  /\ Queried =>
       query_variable_for_provider(timeseries_df, query.variable_name,
                                   query.measurement, query.provider, query.unit)
         = selected
  /\ Pivoted =>
       LET again == query_multiple_variables(
                      timeseries_df, query.variables,
                      IF outcome = "PivotError" THEN "PivotError" ELSE "returned")
       IN again.outcome = outcome /\ again.wide_df = wide_df

SelectedPositions == {selected[j].value : j \in 1..Len(selected)}

\* The row equals the variable in the dimensions that must be given.
MatchesGiven(row) ==
  /\ row.provider = query.kwargs.provider
  /\ row.variable_name = query.kwargs.variable_name
  /\ row.measurement = query.kwargs.measurement

\* The row equals the variable in a dimension, with "all" for a dimension
\* that is not given.
MatchesOrAll(row, field) ==
  row[field] = (IF query.kwargs[field] \in {Absent, None} THEN "all"
                ELSE query.kwargs[field])

\* C22 as the spec states it: variable_name, measurement and provider are
\* all that has to be given, and the variable selects exactly the rows equal
\* to it in provider, variable_name, measurement, unit, age, race and sex,
\* with "all" for each of unit, age, race and sex that is not given.
C22_AsStated ==
  (pc = "selected"
     /\ \A field \in {"variable_name", "measurement", "provider"} :
          query.kwargs[field] # Absent) =>
    /\ outcome # "TypeError"
    /\ SelectedPositions
         = {i \in 1..Len(timeseries_df) :
              /\ MatchesGiven(timeseries_df[i])
              /\ \A field \in {"unit", "age", "race", "sex"} :
                   MatchesOrAll(timeseries_df[i], field)}

\* C22, amended: variable_name, measurement, provider and unit have to be
\* given, else making the variable raises TypeError; the variable selects
\* exactly the rows equal to it in provider, variable_name and measurement,
\* in age, race and sex, with "all" for each of these that is not given, and
\* in unit when the unit given is not None; a unit of None selects the rows
\* of every unit.
C22_VariableSelectsMatchingRows ==
  pc = "selected" =>
    /\ outcome = "TypeError"
         <=> \E field \in {"variable_name", "measurement", "provider", "unit"} :
               query.kwargs[field] = Absent
    /\ outcome # "TypeError" =>
         /\ Len(selected) = Cardinality(SelectedPositions)
         /\ SelectedPositions
              = {i \in 1..Len(timeseries_df) :
                   /\ MatchesGiven(timeseries_df[i])
                   /\ \A field \in {"age", "race", "sex"} :
                        MatchesOrAll(timeseries_df[i], field)
                   /\ \/ query.kwargs.unit = None
                      \/ timeseries_df[i].unit = query.kwargs.unit}

C22_Witness ==
  /\ pc = "selected"
  /\ query.kwargs.unit = "people"
  /\ query.kwargs.age = Absent /\ query.kwargs.race = Absent
  /\ query.kwargs.sex = Absent
  /\ outcome = "returned"
  /\ Len(timeseries_df) = 2
  /\ Len(selected) = 1
  /\ \E i \in 1..Len(timeseries_df) :
       timeseries_df[i].unit = "people" /\ timeseries_df[i].age # "all"

\* --------------- checked properties, update_covid_tracking_data.transform
Transformed == pc = "transformed"

\* The row at position i of the table passed to transform had more in ICU
\* than hospitalized.
Mismatch(i) ==
  GreaterThan(query.df[i].inIcuCurrently, query.df[i].hospitalizedCurrently)

\* C26: the assertion of lines 185-187 never fails; after the call no row of
\* the table has inIcuCurrently greater than hospitalizedCurrently; the
\* mismatch warning is logged exactly when some row of the input had, and
\* inIcuCurrently is NaN in exactly those rows and as it was in the others.
C26_IcuAssertionNeverFails ==
  Transformed =>
    /\ outcome # "AssertionError"
    /\ \A i \in 1..Len(df) :
         ~GreaterThan(df[i].inIcuCurrently, df[i].hospitalizedCurrently)
    /\ Events(ICU_HOSPITALIZED_MISMATCH_WARNING_MESSAGE) # {}
         <=> \E i \in 1..Len(query.df) : Mismatch(i)
    /\ Len(df) = Len(query.df)
    /\ \A i \in 1..Len(df) :
         /\ df[i].inIcuCurrently
              = IF Mismatch(i) THEN NaN ELSE query.df[i].inIcuCurrently
         /\ df[i].hospitalizedCurrently = query.df[i].hospitalizedCurrently

C26_Witness ==
  /\ Transformed /\ outcome = "returned"
  /\ Len(query.df) = 2
  /\ Mismatch(1) /\ ~Mismatch(2)
  /\ query.df[2].inIcuCurrently = <<1>>
  /\ query.df[2].hospitalizedCurrently = <<3>>
  /\ logs[1].event = ICU_HOSPITALIZED_MISMATCH_WARNING_MESSAGE
  /\ logs[1].lines_changed = 1

\* The rows of the input whose FIPS has two characters, in order.
StateRows == SelectSeq(query.df, LAMBDA row : Len(row.fips) = 2)

\* What C27 says of the rows returned, apart from the testing numbers.
StateRowsReturned ==
  /\ outcome = "returned"
  /\ Len(result) = Len(StateRows)
  /\ \A k \in 1..Len(result) :
       /\ result[k].country = "USA"
       /\ result[k].aggregate_level = "state"
       /\ Len(result[k].fips) = 2
       /\ result[k].fips = StateRows[k].fips
       /\ result[k].state = StateRows[k].state
  /\ Events(NON_STATE_REGIONS_MESSAGE) # {} <=> Len(StateRows) < Len(query.df)

\* The row is one of Connecticut on a day whose testing numbers lines 165-167
\* remove.
RemovedDay(row) ==
  row.state = "CT" /\ row.date \in {"20200717", "20200718", "20200719"}

\* C27 as the spec states it: every row returned has country USA,
\* aggregate_level state and a FIPS of two characters, the rows with another
\* FIPS are dropped with the warning, and positive and negative appear as
\* positive_tests and negative_tests with their values unchanged.
C27_AsStated ==
  Transformed =>
    /\ StateRowsReturned
    /\ \A k \in 1..Len(result) :
         /\ result[k].positive_tests = StateRows[k].positive
         /\ result[k].negative_tests = StateRows[k].negative

\* C27, amended: the same, except that in the rows of Connecticut dated
\* 2020-07-17, 2020-07-18 and 2020-07-19 positive_tests and negative_tests
\* are missing.
C27_StateRowsOnly ==
  Transformed =>
    /\ StateRowsReturned
    /\ \A k \in 1..Len(result) :
         IF RemovedDay(StateRows[k])
         THEN result[k].positive_tests = NaN /\ result[k].negative_tests = NaN
         ELSE /\ result[k].positive_tests = StateRows[k].positive
              /\ result[k].negative_tests = StateRows[k].negative

C27_Witness ==
  /\ Transformed /\ outcome = "returned"
  /\ Len(query.df) = 2 /\ Len(result) = 1
  /\ Len(query.df[1].fips) = 5
  /\ result[1].positive_tests = <<10>>
  /\ result[1].date = [year |-> 2020, month |-> 4, day |-> 1]
  /\ DOMAIN result[1]
       = {"date", "state", "positive_tests", "negative_tests", "fips",
          "current_icu", "current_hospitalized", "country", "aggregate_level"}

\* ---------------- checked properties, update_cdc_test_data._remove_trailing_zeros
\* The dates of the entries of the argument that are present and not zero.
PresentNonZeroDates ==
  {query.series[i].date : i \in {j \in 1..Len(query.series) :
     query.series[j].value \notin {NaN, <<0>>}}}

\* The entry at position i of the argument is dated after the last entry that
\* is present and not zero, or there is no such entry.
AfterLastNonZero(i) == \A d \in PresentNonZeroDates : query.series[i].date > d

\* C28: _remove_trailing_zeros returns the series with every entry dated
\* after the last present non-zero entry missing and every other entry as it
\* was (every entry missing if none is present and non-zero); the series
\* passed in is as it was, and the function applied to what it returned
\* returns the same.
C28_TrailingZerosRemoved ==
  /\ pc \in {"cleaned", "cleaned again"} =>
       /\ Len(result) = Len(query.series)
       /\ \A i \in 1..Len(result) :
            /\ result[i].date = query.series[i].date
            /\ result[i].value
                 = IF AfterLastNonZero(i) THEN NaN ELSE query.series[i].value
  /\ pc = "cleaned" => df = query.series
  /\ pc = "cleaned again" => result = query.series

C28_Witness ==
  /\ pc = "cleaned again"
  /\ Len(df) = 3
  /\ df[1].value = <<2>> /\ df[2].value = <<0>> /\ df[3].value = <<0>>
  /\ df[1].date = df[2].date /\ df[2].date < df[3].date
  /\ result[2].value = <<0>> /\ result[3].value = NaN

\* ------------- checked properties, update_hhs_hospital_data.filter_early_data
\* The row is dated on or after the default start date and, if its FIPS is a
\* key of CUSTOM_START_DATES, on or after the start date of that key.
KeptByStartDates(row) ==
  /\ OnOrAfter(row.date, [year |-> 2020, month |-> 9, day |-> 1])
  /\ row.fips \in DOMAIN CUSTOM_START_DATES
       => OnOrAfter(row.date, to_datetime_iso(CUSTOM_START_DATES[row.fips]))

\* C29: filter_early_data returns exactly the rows dated on or after the
\* default start date and, for a FIPS that is a key of CUSTOM_START_DATES, on
\* or after that key's date, as they were and in their order; a FIPS that is
\* no key, a county of a listed state included, is held to the default date
\* only; and the filter applied to what it returned returns the same.
C29_KeepsRowsFromStartDate ==
  /\ pc \in {"filtered", "filtered again"}
       => result = SelectSeq(query.df, KeptByStartDates)
  /\ pc = "filtered again" => result = query.df

C29_Witness ==
  /\ pc = "filtered again"
  /\ Len(df) = 2 /\ Len(result) = 1
  /\ df[1].fips = "02" /\ df[2].fips = "02013"
  /\ df[1].date = [year |-> 2020, month |-> 10, day |-> 5]
  /\ df[2].date = df[1].date
  /\ result[1] = df[2]

\* -------- checked properties, update_covid_care_map.CovidCareMapUpdater.transform
\* The FIPS codes of the rows of the two files, the county rows first.
FileFips ==
  [i \in 1..Len(df.county) |-> df.county[i]["fips_code"]]
    \o [i \in 1..Len(df.state) |-> STATE_TO_FIPS[df.state[i]["State"]]]

FipsInFiles == {FileFips[i] : i \in 1..Len(FileFips)}

TwoRowsShareFips ==
  \E i, j \in 1..Len(FileFips) : i # j /\ FileFips[i] = FileFips[j]

\* C30 as the spec states it: transform raises ValueError whenever two rows
\* of the concatenated county and state tables have the same FIPS, and
\* otherwise returns a table in which every FIPS occurs once, no row has
\* state VI, every row has country USA and max_bed_count is the larger of
\* staffed_beds and licensed_beds of the row.
C30_AsStated ==
  pc = "transformed" =>
    /\ outcome = "ValueError" <=> TwoRowsShareFips
    /\ outcome = "returned" =>
         /\ \A i, j \in 1..Len(result) : result[i].fips = result[j].fips => i = j
         /\ \A i \in 1..Len(result) :
              /\ result[i].state # "VI"
              /\ result[i].country = "USA"
              /\ result[i].max_bed_count
                   = RowMax(result[i].staffed_beds, result[i].licensed_beds)

\* C30 apart from the country: what holds of every table returned.
C30_RestOfClaim ==
  pc = "transformed" =>
    /\ outcome = "ValueError" <=> TwoRowsShareFips
    /\ outcome = "returned" =>
         /\ \A i, j \in 1..Len(result) : result[i].fips = result[j].fips => i = j
         /\ \A i \in 1..Len(result) :
              /\ result[i].state # "VI"
              /\ result[i].fips \in FipsInFiles => result[i].country = "USA"
              /\ result[i].max_bed_count
                   = RowMax(result[i].staffed_beds, result[i].licensed_beds)

\* A table with Washoe County, Nevada and Utah in the files: no row is added.
C30_OverridesOfRowsPresent ==
  /\ pc = "transformed" /\ outcome = "returned"
  /\ {"32031", "32", "49"} \subseteq FipsInFiles
  /\ Len(result) = Len(FileFips)
  /\ \A i \in 1..Len(result) : result[i].country = "USA"
====
